---- MODULE Spec2Model ----
(***************************************************************************)
(* Model of the request/response interception pipeline of js-llmcord       *)
(* (tool-call-index-patch.ts): the tool-call index tracker, the SSE event  *)
(* pipeline with its empty-chunk filter and thought-signature capture, and *)
(* the wrapped fetch that decides whether a response is piped through it.  *)
(***************************************************************************)
EXTENDS Integers, Sequences, FiniteSets, TLC

(***************************************************************************)
(* Bounds of the model.                                                    *)
(***************************************************************************)
\* largest index the upstream supplies on a fragment
MaxIdx == 2
\* number of fragments handed to the tracker in the tracker specification
MaxFragments == 3
\* number of SSE events one response stream carries
MaxEvents == 2
\* number of response streams one fetch instance serves
MaxStreams == 2

(***************************************************************************)
(* JSON values of a tool-call fragment.                                    *)
(* A string is a sequence of one-character strings, so that parseInt is    *)
(* computed on its characters.                                             *)
(***************************************************************************)
\* `id` / `function.name` that is missing, not a string or the empty string
NoStr == ""
\* getToolCallKey's null
NoKey == "<null>"
\* thought_signature that is missing, not a string or the empty string
NoSig == "<nosig>"

Absent == [t |-> "absent", n |-> 0, s |-> <<>>]
Null == [t |-> "null", n |-> 0, s |-> <<>>]
\* a number that is not finite (JSON.parse("1e999") is Infinity)
NonFinite == [t |-> "nonfinite", n |-> 0, s |-> <<>>]
Num(k) == [t |-> "number", n |-> k, s |-> <<>>]
Str(cs) == [t |-> "string", n |-> 0, s |-> cs]

Digits == <<"0", "1", "2", "3", "4", "5", "6", "7", "8", "9">>
IsDigit(c) == \E i \in 1..Len(Digits) : Digits[i] = c
DigitVal(c) == (CHOOSE i \in 1..Len(Digits) : Digits[i] = c) - 1

RECURSIVE SkipSpace(_)
SkipSpace(cs) ==
  IF cs # <<>> /\ Head(cs) = " " THEN SkipSpace(Tail(cs)) ELSE cs

\* the value of the longest prefix of digits of cs, after the digits read so far
RECURSIVE ReadDigits(_, _)
ReadDigits(cs, acc) ==
  IF cs # <<>> /\ IsDigit(Head(cs))
  THEN ReadDigits(Tail(cs), 10 * acc + DigitVal(Head(cs)))
  ELSE acc

\* parseInt(s, 10): leading white space is skipped, one sign is read, then the
\* digits up to the first character that is none; NaN when there is no digit.
parseInt(cs) ==
  LET t == SkipSpace(cs)
      neg == t # <<>> /\ Head(t) = "-"
      u == IF t # <<>> /\ Head(t) \in {"-", "+"} THEN Tail(t) ELSE t
  IN IF u # <<>> /\ IsDigit(Head(u))
     THEN [nan |-> FALSE, n |-> IF neg THEN 0 - ReadDigits(u, 0) ELSE ReadDigits(u, 0)]
     ELSE [nan |-> TRUE, n |-> 0]

\* typeof v === "number" && !isNaN(v) && isFinite(v)
IsFiniteNumber(v) == v.t = "number"

(***************************************************************************)
(* Tool Call Index Assignment                                              *)
(***************************************************************************)
\* a ChoiceIndexState that starts counting at one
NewChoiceStateFromOne == [nextIndex |-> 1, assigned |-> <<>>]

\* a fresh ChoiceIndexState
NewChoiceState == [nextIndex |-> 0, assigned |-> <<>>]

\* the key that prefers the function name to the id
getToolCallKeyNameFirst(call) ==
  IF call.name # NoStr THEN "fn:" \o call.name
  ELSE IF call.id # NoStr THEN call.id
  ELSE NoKey

\* getToolCallKey(call): NoKey for null
getToolCallKey(call) ==
  IF call.id # NoStr THEN call.id
  ELSE IF call.name # NoStr THEN "fn:" \o call.name
  ELSE NoKey

Max(a, b) == IF a >= b THEN a ELSE b

\* Indices are JavaScript numbers, IEEE 754 doubles.  Unsafe stands for 2^53,
\* the least n with n + 1 = n; the numbers between MaxIdx and it are not used.
Unsafe == 100

\* n + 1 as the doubles compute it
Succ(n) == IF n >= Unsafe THEN n ELSE n + 1

\* the tracker without the reuse of a key's recorded index
ensureToolCallIndexNoReuse(state, call) ==
  LET key == getToolCallKey(call)
      parsed == IF call.index.t = "string" THEN parseInt(call.index.s)
                ELSE [nan |-> TRUE, n |-> 0]
      converted == call.index.t = "string" /\ ~parsed.nan
      index1 == IF call.index.t = "string"
                THEN (IF parsed.nan THEN Absent ELSE Num(parsed.n))
                ELSE call.index
      record(i) == IF key # NoKey THEN (key :> i) @@ state.assigned
                   ELSE state.assigned
  IN IF IsFiniteNumber(index1)
     THEN [state |-> [nextIndex |-> Max(state.nextIndex, Succ(index1.n)),
                      assigned |-> record(index1.n)],
           call |-> [call EXCEPT !.index = index1],
           mutated |-> converted]
     ELSE [state |-> [nextIndex |-> Succ(state.nextIndex),
                      assigned |-> record(state.nextIndex)],
           call |-> [call EXCEPT !.index = Num(state.nextIndex)],
           mutated |-> TRUE]

\* the tracker that does not advance nextIndex past an index the upstream supplies
ensureToolCallIndexNoAdvance(state, call) ==
  LET key == getToolCallKey(call)
      parsed == IF call.index.t = "string" THEN parseInt(call.index.s)
                ELSE [nan |-> TRUE, n |-> 0]
      converted == call.index.t = "string" /\ ~parsed.nan
      index1 == IF call.index.t = "string"
                THEN (IF parsed.nan THEN Absent ELSE Num(parsed.n))
                ELSE call.index
      record(i) == IF key # NoKey THEN (key :> i) @@ state.assigned
                   ELSE state.assigned
  IN IF IsFiniteNumber(index1)
     THEN [state |-> [nextIndex |-> state.nextIndex,
                      assigned |-> record(index1.n)],
           call |-> [call EXCEPT !.index = index1],
           mutated |-> converted]
     ELSE IF key # NoKey /\ key \in DOMAIN state.assigned
     THEN [state |-> state,
           call |-> [call EXCEPT !.index = Num(state.assigned[key])],
           mutated |-> TRUE]
     ELSE [state |-> [nextIndex |-> Succ(state.nextIndex),
                      assigned |-> record(state.nextIndex)],
           call |-> [call EXCEPT !.index = Num(state.nextIndex)],
           mutated |-> TRUE]

\* the tracker that leaves a string index on the fragment as it came
ensureToolCallIndexKeepString(state, call) ==
  LET key == getToolCallKey(call)
      record(i) == IF key # NoKey THEN (key :> i) @@ state.assigned
                   ELSE state.assigned
  IN IF IsFiniteNumber(call.index) \/ call.index.t = "string"
     THEN [state |-> [nextIndex |-> IF IsFiniteNumber(call.index)
                                    THEN Max(state.nextIndex, Succ(call.index.n))
                                    ELSE state.nextIndex,
                      assigned |-> IF IsFiniteNumber(call.index)
                                   THEN record(call.index.n)
                                   ELSE state.assigned],
           call |-> call,
           mutated |-> FALSE]
     ELSE IF key # NoKey /\ key \in DOMAIN state.assigned
     THEN [state |-> state,
           call |-> [call EXCEPT !.index = Num(state.assigned[key])],
           mutated |-> TRUE]
     ELSE [state |-> [nextIndex |-> Succ(state.nextIndex),
                      assigned |-> record(state.nextIndex)],
           call |-> [call EXCEPT !.index = Num(state.nextIndex)],
           mutated |-> TRUE]

\* ensureToolCallIndex(state, call): the state and the fragment after the call,
\* and the value returned
ensureToolCallIndex(state, call) ==
  LET key == getToolCallKey(call)
      parsed == IF call.index.t = "string" THEN parseInt(call.index.s)
                ELSE [nan |-> TRUE, n |-> 0]
      converted == call.index.t = "string" /\ ~parsed.nan
      \* call.index after the conversion of a string index
      index1 == IF call.index.t = "string"
                THEN (IF parsed.nan THEN Absent ELSE Num(parsed.n))
                ELSE call.index
      record(i) == IF key # NoKey THEN (key :> i) @@ state.assigned
                   ELSE state.assigned
  IN IF IsFiniteNumber(index1)
     THEN [state |-> [nextIndex |-> Max(state.nextIndex, Succ(index1.n)),
                      assigned |-> record(index1.n)],
           call |-> [call EXCEPT !.index = index1],
           mutated |-> converted]
     ELSE IF key # NoKey /\ key \in DOMAIN state.assigned
     THEN [state |-> state,
           call |-> [call EXCEPT !.index = Num(state.assigned[key])],
           mutated |-> TRUE]
     ELSE [state |-> [nextIndex |-> Succ(state.nextIndex),
                      assigned |-> record(state.nextIndex)],
           call |-> [call EXCEPT !.index = Num(state.nextIndex)],
           mutated |-> TRUE]

(***************************************************************************)
(* The tracker on its own: one ChoiceIndexState, that is one choice of one *)
(* stream, fed a sequence of fragments (ensureToolCallIndex is exported    *)
(* through __internal).                                                    *)
(***************************************************************************)
VARIABLES
  trkState,   \* the ChoiceIndexState
  trkLog      \* the calls made so far: the fragment passed, the fragment after
              \* the call, the value returned and nextIndex before the call

trkVars == <<trkState, trkLog>>

\* ids and function names of the fragments; "fn:f" is an id like any other
FragmentIds == {NoStr, "a", "fn:f"}
FragmentNames == {NoStr, "f"}
SuppliedIndices == {Num(k) : k \in 0..MaxIdx} \cup {Num(Unsafe)}

TrackerFragments ==
  {[id |-> i, name |-> n, index |-> x, sig |-> NoSig] :
     i \in FragmentIds, n \in FragmentNames,
     x \in {Absent, Str(<<"2">>)} \cup SuppliedIndices}

TrackerInit ==
  /\ trkState = NewChoiceState
  /\ trkLog = <<>>

\* one call of ensureToolCallIndex on the choice's state
EnsureCall(call) ==
  LET r == ensureToolCallIndex(trkState, call)
  IN /\ Len(trkLog) < MaxFragments
     /\ trkState' = r.state
     /\ trkLog' = Append(trkLog, [in |-> call, out |-> r.call,
                                  mutated |-> r.mutated,
                                  before |-> trkState.nextIndex])

(***************************************************************************)
(* SSE events.  An event is the text between two blank-line delimiters,    *)
(* held as what transformEvent and JSON.parse make of it:                  *)
(*   blank         only white space                                        *)
(*   nodata        no line starts with "data:"                             *)
(*   emptypayload  the data lines join to the empty string                 *)
(*   done          the payload is [DONE]                                   *)
(*   badjson       JSON.parse throws on the payload                        *)
(*   nochoices     JSON whose `choices` is missing or no array             *)
(*   emptychoices  JSON with `choices: []`                                 *)
(*   chunk         JSON with a non-empty `choices` array                   *)
(* A choice is a plain object {index, finish_reason, delta}; a delta is    *)
(* {content, tool_calls, thought_signature}, and has = FALSE says that the *)
(* choice has no delta object.  tool_calls = <<>> is a missing or empty    *)
(* array (isValidArray tells them apart from no other value).              *)
(***************************************************************************)
\* `content` that is missing, null or no string
NoContent == "<none>"
\* finish_reason: null
NoFinish == "<null>"

Frag(i, n, x, g) == [id |-> i, name |-> n, index |-> x, sig |-> g]
Delta(c, calls, g) == [has |-> TRUE, content |-> c, tool_calls |-> calls, sig |-> g]
NoDelta == [has |-> FALSE, content |-> NoContent, tool_calls |-> <<>>, sig |-> NoSig]
Choice(x, f, d) == [index |-> x, finish_reason |-> f, delta |-> d]
Chunk(cs) == [kind |-> "chunk", choices |-> cs]
Plain(k) == [kind |-> k, choices |-> <<>>]

\* transformEvent's null: the event is not forwarded
Dropped == Plain("null")

EmptyDelta == Delta(NoContent, <<>>, NoSig)

\* events that carry tool-call fragments, with the index in each of its forms
ToolCallEvents ==
  {Chunk(<<Choice(Num(0), NoFinish, Delta(NoContent, <<Frag("a", "f", x, NoSig)>>, NoSig))>>) :
     x \in {Absent, Null, NonFinite, Num(1), Str(<<"2">>), Str(<<"x">>)}}
  \cup
  {Chunk(<<Choice(Absent, NoFinish, Delta(NoContent, <<Frag(NoStr, NoStr, Absent, NoSig)>>, NoSig))>>),
   Chunk(<<Choice(Num(1), NoFinish,
           Delta(NoContent, <<Frag("a", NoStr, Absent, NoSig), Frag("b", NoStr, Absent, NoSig)>>, NoSig))>>)}

\* events around the end of a tool-call turn
FinishEvents ==
  {Chunk(<<Choice(Num(0), f, d)>>) :
     f \in {NoFinish, "tool_calls", "stop"},
     d \in {EmptyDelta, NoDelta}}
  \cup
  {Chunk(<<Choice(Num(0), NoFinish, Delta(c, <<>>, NoSig))>>) : c \in {"", "hi"}}
  \cup
  {Chunk(<<Choice(Num(0), NoFinish, NoDelta), Choice(Num(1), NoFinish, EmptyDelta)>>),
   Chunk(<<Choice(Num(0), NoFinish, EmptyDelta), Choice(Num(1), "tool_calls", Delta("hi", <<>>, NoSig))>>)}

\* events that carry a thought_signature, on the delta or under the first
\* fragment's extra_content.google
SignatureEvents ==
  {Chunk(<<Choice(Num(0), NoFinish, Delta(NoContent, <<>>, "sigA"))>>),
   Chunk(<<Choice(Num(0), NoFinish,
           Delta(NoContent, <<Frag("a", "f", Num(0), "sigB")>>, NoSig))>>)}

OtherEvents ==
  {Plain(k) : k \in {"blank", "nodata", "emptypayload", "done", "badjson",
                     "nochoices", "emptychoices"}}

Events == ToolCallEvents \cup FinishEvents \cup SignatureEvents \cup OtherEvents

(***************************************************************************)
(* SSE Stream Patching                                                     *)
(***************************************************************************)
\* the StreamState patchSseStream starts with
NewStreamState ==
  [toolCallState |-> <<>>, sawToolCallsFinish |-> FALSE, chunkCount |-> 0,
   thoughtSignature |-> NoSig]

\* getChoiceState(state, choiceIndex): the map after the lookup, which creates
\* the entry that is missing
getChoiceState(tcs, choiceIndex) ==
  IF choiceIndex \in DOMAIN tcs THEN tcs
  ELSE (choiceIndex :> NewChoiceState) @@ tcs

\* one index state for all the choices of a stream
ChoiceIndexOfAlwaysZero(choice) == 0

\* safeGet(choice, ["index"]) ?? 0
ChoiceIndexOf(choice) ==
  IF choice.index.t \in {"absent", "null"} THEN 0 ELSE choice.index.n

\* extractThoughtSignature(choices), from choice i on
RECURSIVE extractFrom(_, _)
extractFrom(choices, i) ==
  IF i > Len(choices) THEN NoSig
  ELSE LET delta == choices[i].delta
       IN IF ~delta.has THEN extractFrom(choices, i + 1)
          ELSE IF delta.sig # NoSig THEN delta.sig
          ELSE IF delta.tool_calls # <<>> /\ delta.tool_calls[1].sig # NoSig
               THEN delta.tool_calls[1].sig
          ELSE extractFrom(choices, i + 1)

extractThoughtSignature(choices) == extractFrom(choices, 1)

\* the loop of shouldFilterEmptyChunk from choice i on
RECURSIVE filterLoop(_, _, _)
filterLoop(choices, i, hasValidChoice) ==
  IF i > Len(choices) THEN hasValidChoice
  ELSE LET delta == choices[i].delta
       IN IF ~delta.has THEN filterLoop(choices, i + 1, hasValidChoice)
          ELSE IF delta.tool_calls # <<>> THEN FALSE
          ELSE IF delta.content \notin {NoContent, ""} THEN FALSE
          ELSE filterLoop(choices, i + 1, TRUE)

\* the filter that does not ask for a choice with a delta object
shouldFilterEmptyChunkAnyShape(choices) == filterLoop(choices, 1, TRUE)

shouldFilterEmptyChunk(choices) == filterLoop(choices, 1, FALSE)

\* the inner loop of patchToolCallIndices: the calls of one delta from call j
\* on; patchCallsNext carries on after the call of ensureToolCallIndex gave r
RECURSIVE patchCalls(_, _, _, _)
RECURSIVE patchCallsNext(_, _, _, _)
patchCallsNext(calls, j, mutated, r) ==
  patchCalls([calls EXCEPT ![j] = r.call], j + 1, r.state, mutated \/ r.mutated)

patchCalls(calls, j, cstate, mutated) ==
  IF j > Len(calls)
  THEN [calls |-> calls, cstate |-> cstate, mutated |-> mutated]
  ELSE patchCallsNext(calls, j, mutated, ensureToolCallIndex(cstate, calls[j]))

\* "Track finish_reason"
\* a latch set by every finish_reason
trackFinishReasonAnyFinish(st, choice) ==
  IF choice.finish_reason # NoFinish
  THEN [st EXCEPT !.sawToolCallsFinish = TRUE] ELSE st

trackFinishReason(st, choice) ==
  IF choice.finish_reason = "tool_calls"
  THEN [st EXCEPT !.sawToolCallsFinish = TRUE] ELSE st

\* the outer loop of patchToolCallIndices from choice i on.  patchChoice handles
\* choice i once its finish_reason is tracked, patchChoiceCalls patches its calls
\* against the state of its choice index in tcs, patchChoiceNext carries on
\* after the inner loop gave r.
RECURSIVE patchChoices(_, _, _, _)
RECURSIVE patchChoice(_, _, _, _)
RECURSIVE patchChoiceCalls(_, _, _, _, _)
RECURSIVE patchChoiceNext(_, _, _, _, _, _)
patchChoiceNext(choices, i, st, mutated, tcs, r) ==
  patchChoices([choices EXCEPT ![i].delta.tool_calls = r.calls], i + 1,
               [st EXCEPT !.toolCallState =
                  [tcs EXCEPT ![ChoiceIndexOf(choices[i])] = r.cstate]],
               mutated \/ r.mutated)

patchChoiceCalls(choices, i, st, mutated, tcs) ==
  patchChoiceNext(choices, i, st, mutated, tcs,
                  patchCalls(choices[i].delta.tool_calls, 1,
                             tcs[ChoiceIndexOf(choices[i])], FALSE))

patchChoice(choices, i, st, mutated) ==
  IF ~choices[i].delta.has \/ choices[i].delta.tool_calls = <<>>
  THEN patchChoices(choices, i + 1, st, mutated)
  ELSE patchChoiceCalls(choices, i, st, mutated,
                        getChoiceState(st.toolCallState, ChoiceIndexOf(choices[i])))

patchChoices(choices, i, st, mutated) ==
  IF i > Len(choices)
  THEN [choices |-> choices, state |-> st, mutated |-> mutated]
  ELSE patchChoice(choices, i, trackFinishReason(st, choices[i]), mutated)

patchToolCallIndices(choices, st) == patchChoices(choices, 1, st, FALSE)

\* the value patchChunkPayload returns after patchToolCallIndices gave r;
\* patched = <<>> is `patched: null`
\* a patchChunkPayload that returns JSON.stringify(json) whether or not a
\* fragment was mutated
patchedPayloadAlways(r) ==
  [state |-> r.state, patched |-> <<Chunk(r.choices)>>, shouldFilter |-> FALSE]

patchedPayload(r) ==
  [state |-> r.state,
   patched |-> IF r.mutated THEN <<Chunk(r.choices)>> ELSE <<>>,
   shouldFilter |-> FALSE]

\* "Extract thought_signature": state.thoughtSignature = sig, if (sig)
storeSignature(st, sig) ==
  IF sig # NoSig THEN [st EXCEPT !.thoughtSignature = sig] ELSE st

\* patchChunkPayload from "Check if this chunk should be filtered" on
filterOrPatch(event, st, spc) ==
  IF /\ spc.filterEmptyChunksAfterToolCalls
     /\ st.sawToolCallsFinish
     /\ shouldFilterEmptyChunk(event.choices)
  THEN [state |-> st, patched |-> <<>>, shouldFilter |-> TRUE]
  ELSE IF ~spc.assignMissingIndices
  THEN [state |-> st, patched |-> <<>>, shouldFilter |-> FALSE]
  ELSE patchedPayload(patchToolCallIndices(event.choices, st))

\* patchChunkPayload that takes a payload without choices for an empty chunk
patchChunkPayloadFilterNoChoices(event, st, config, spc) ==
  IF event.kind \in {"nochoices", "emptychoices"}
  THEN [state |-> st, patched |-> <<>>,
        shouldFilter |-> spc.filterEmptyChunksAfterToolCalls /\ st.sawToolCallsFinish]
  ELSE IF event.kind # "chunk"
  THEN [state |-> st, patched |-> <<>>, shouldFilter |-> FALSE]
  ELSE filterOrPatch(event,
                     storeSignature(st, IF config.handleThoughtSignature
                                        THEN extractThoughtSignature(event.choices)
                                        ELSE NoSig),
                     spc)

\* patchChunkPayload whose catch block forgets the index assignments
patchChunkPayloadResetOnError(event, st, config, spc) ==
  IF event.kind = "badjson"
  THEN [state |-> [st EXCEPT !.toolCallState = <<>>], patched |-> <<>>,
        shouldFilter |-> FALSE]
  ELSE IF event.kind # "chunk"
  THEN [state |-> st, patched |-> <<>>, shouldFilter |-> FALSE]
  ELSE filterOrPatch(event,
                     storeSignature(st, IF config.handleThoughtSignature
                                        THEN extractThoughtSignature(event.choices)
                                        ELSE NoSig),
                     spc)

\* patchChunkPayload that decides the drop before it extracts the signature
patchChunkPayloadFilterFirst(event, st, config, spc) ==
  IF event.kind # "chunk"
  THEN [state |-> st, patched |-> <<>>, shouldFilter |-> FALSE]
  ELSE IF /\ spc.filterEmptyChunksAfterToolCalls
          /\ st.sawToolCallsFinish
          /\ shouldFilterEmptyChunk(event.choices)
  THEN [state |-> st, patched |-> <<>>, shouldFilter |-> TRUE]
  ELSE filterOrPatch(event,
                     storeSignature(st, IF config.handleThoughtSignature
                                        THEN extractThoughtSignature(event.choices)
                                        ELSE NoSig),
                     spc)

\* patchChunkPayload(payload, state, config): the stream state after the call and
\* the value returned.  spc is STREAM_PATCH_CONFIG.
patchChunkPayload(event, st, config, spc) ==
  IF event.kind # "chunk"
  THEN \* JSON.parse throws, or `choices` is no array, or it is empty
       [state |-> st, patched |-> <<>>, shouldFilter |-> FALSE]
  ELSE filterOrPatch(event,
                     storeSignature(st, IF config.handleThoughtSignature
                                        THEN extractThoughtSignature(event.choices)
                                        ELSE NoSig),
                     spc)

\* what transformEvent returns after patchChunkPayload gave result
eventResult(event, result) ==
  [state |-> result.state,
   out |-> IF result.shouldFilter THEN Dropped
           ELSE IF result.patched = <<>> THEN event
           ELSE result.patched[1],
   rebuilt |-> ~result.shouldFilter /\ result.patched # <<>>]

\* transformEvent after state.chunkCount++
transformCounted(event, st, config, spc) ==
  IF event.kind \in {"nodata", "emptypayload", "done"}
  THEN [state |-> st, out |-> event, rebuilt |-> FALSE]
  ELSE eventResult(event, patchChunkPayload(event, st, config, spc))

\* transformEvent(event, state, config): the stream state after the call, the
\* event returned (Dropped for null), and whether it is the event rebuilt
\* around the re-serialised payload rather than the event it was given
transformEvent(event, st, config, spc) ==
  IF event.kind = "blank" THEN [state |-> st, out |-> event, rebuilt |-> FALSE]
  ELSE transformCounted(event, [st EXCEPT !.chunkCount = @ + 1], config, spc)

(***************************************************************************)
(* JSON Schema Transformation                                              *)
(* A JSON value is a primitive, an array or an object; an object is the    *)
(* sequence of its entries in insertion order, each a key with its value.  *)
(***************************************************************************)
\* schema nesting depth
MaxDepth == 3
\* entries of the outermost object
MaxKeys == 2

Prim(x) == [t |-> "prim", v |-> x, items |-> <<>>]
Arr(items) == [t |-> "array", v |-> "", items |-> items]
Entry(k, val) == [t |-> "entry", v |-> k, items |-> <<val>>]
Obj(entries) == [t |-> "object", v |-> "", items |-> entries]

\* SCHEMA_TRANSFORM_CONFIG.keywordsToRemove, as far as the schemas use its
\* keywords
keywordsToRemove == {"not", "propertyNames"}

\* SCHEMA_TRANSFORM_CONFIG.keywordTransforms: const: (value) => ({enum: [value]})
keywordTransforms == [const |-> "enumOfValue"]

\* what a keyword transform returns for value: the entries of an object.  A
\* transform of kind "throws" returns nothing; Throws tells when it is called.
Transformed(kind, value) ==
  IF kind = "enumOfValue" THEN <<Entry("enum", Arr(<<value>>))>> ELSE <<>>

\* result[key] = val: an own key keeps its place, a new one goes last
RECURSIVE Put(_, _, _)
Put(entries, k, val) ==
  IF entries = <<>> THEN <<Entry(k, val)>>
  ELSE IF entries[1].v = k THEN <<Entry(k, val)>> \o Tail(entries)
  ELSE <<entries[1]>> \o Put(Tail(entries), k, val)

\* Object.assign(result, source)
RECURSIVE Assign(_, _)
Assign(result, source) ==
  IF source = <<>> THEN result
  ELSE Assign(Put(result, source[1].v, source[1].items[1]), Tail(source))

\* transformJsonSchema(obj, options)
RECURSIVE transformJsonSchema(_, _)
RECURSIVE transformItems(_, _)
RECURSIVE transformEntries(_, _, _)

\* obj.map((item) => transformJsonSchema(item, options))
transformItems(items, opts) ==
  IF items = <<>> THEN <<>>
  ELSE <<transformJsonSchema(items[1], opts)>> \o transformItems(Tail(items), opts)

\* the loop over Object.entries(objRecord), with result as built so far
transformEntries(entries, result, opts) ==
  IF entries = <<>> THEN result
  ELSE IF entries[1].v \in opts.keywordsToRemove
  THEN transformEntries(Tail(entries), result, opts)
  ELSE IF entries[1].v \in DOMAIN opts.keywordTransforms
  THEN transformEntries(Tail(entries),
                        Assign(result, Transformed(opts.keywordTransforms[entries[1].v],
                                                   entries[1].items[1])),
                        opts)
  ELSE transformEntries(Tail(entries),
                        Put(result, entries[1].v,
                            transformJsonSchema(entries[1].items[1], opts)),
                        opts)

transformJsonSchema(obj, opts) ==
  IF obj.t = "prim" THEN obj
  ELSE IF obj.t = "array" THEN Arr(transformItems(obj.items, opts))
  ELSE Obj(transformEntries(obj.items, <<>>, opts))

\* some keyword transform that transformJsonSchema(obj, options) calls throws
RECURSIVE Throws(_, _)
Throws(obj, opts) ==
  IF obj.t = "prim" THEN FALSE
  ELSE IF obj.t = "array"
  THEN \E i \in 1..Len(obj.items) : Throws(obj.items[i], opts)
  ELSE \E i \in 1..Len(obj.items) :
         /\ obj.items[i].v \notin opts.keywordsToRemove
         /\ IF obj.items[i].v \in DOMAIN opts.keywordTransforms
            THEN opts.keywordTransforms[obj.items[i].v] = "throws"
            ELSE Throws(obj.items[i].items[1], opts)

\* the keys the schemas are built from: a keyword with a transform, the
\* keyword it turns into, a keyword of the removal set, and a key that is a
\* keyword only where the caller makes it one
SchemaKeys == {"const", "enum", "not", "x"}

\* the values up to a nesting depth, objects with at most one entry
RECURSIVE ValuesOfDepth(_)
ValuesOfDepth(d) ==
  IF d = 0 THEN {Prim("p")}
  ELSE LET below == ValuesOfDepth(d - 1)
       IN {Prim("p"), Arr(<<>>), Obj(<<>>)}
          \cup {Arr(<<val>>) : val \in below}
          \cup {Obj(<<Entry(k, val)>>) : k \in SchemaKeys, val \in below}

\* objects with n entries of distinct keys
RECURSIVE ObjectsOfKeys(_, _)
ObjectsOfKeys(n, values) ==
  IF n = 0 THEN {<<>>}
  ELSE {Append(es, Entry(k, val)) :
          es \in ObjectsOfKeys(n - 1, values), k \in SchemaKeys, val \in values}

DistinctKeys(entries) ==
  \A i, j \in 1..Len(entries) : entries[i].v = entries[j].v => i = j

\* the schemas of a nesting depth: objects of at most MaxKeys entries
SchemasOfDepth(d) ==
  {Obj(es) : es \in {e \in UNION {ObjectsOfKeys(n, ValuesOfDepth(d - 1)) :
                                     n \in 0..MaxKeys} : DistinctKeys(e)}}

\* an object schema whose `properties` maps the names of entries to schemas
PropertiesOf(entries) == Obj(<<Entry("properties", Obj(entries))>>)

\* the schemas a parameter has: the values of depth d and the object schemas
\* with one parameter
ParameterSchemas(d) ==
  ValuesOfDepth(d) \cup {PropertiesOf(<<Entry(k, Prim("p"))>>) : k \in SchemaKeys}

\* the object schemas with at most MaxKeys parameters, named by the keys
ObjectSchemas(d) ==
  {PropertiesOf(es) : es \in {e \in UNION {ObjectsOfKeys(n, ParameterSchemas(d)) :
                                              n \in 0..MaxKeys} : DistinctKeys(e)}}

(***************************************************************************)
(* Request bodies.  A body is a string: valid tells whether JSON.parse     *)
(* takes it, ws whether it has white space that JSON.stringify would not    *)
(* write, tools and messages are the two members the wrapped fetch looks    *)
(* at.  A message is {role, tool_calls}, tool_calls = <<>> standing for a   *)
(* missing, empty or non-array member; a tool call has extra_content and,   *)
(* under it, google, each absent (or falsy), a non-empty string, an array   *)
(* or an object, and under google the thought_signature sig.                *)
(***************************************************************************)
\* messages of a request body
MaxMessages == 2

Missing == [t |-> "missing", v |-> "", items |-> <<>>]

Call(p, e, g, sg) == [plain |-> p, extra |-> e, google |-> g, sig |-> sg]
Message(p, r, calls) == [plain |-> p, role |-> r, tool_calls |-> calls]
Body(ok, w, tl, ms) == [valid |-> ok, ws |-> w, tools |-> tl, messages |-> ms]

\* JSON.stringify(json)
Stringified(body) == [body EXCEPT !.ws = FALSE]

\* transformRequestBody without its catch block: what was transformed before
\* a keyword transform threw is returned
transformRequestBodyKeepsPartial(body, opts) ==
  IF ~body.valid THEN body
  ELSE IF body.tools.t # "array" \/ body.tools.items = <<>> THEN body
  ELSE Stringified([body EXCEPT !.tools = transformJsonSchema(body.tools, opts)])

\* transformRequestBody(body, options)
transformRequestBody(body, opts) ==
  IF ~body.valid THEN body
  ELSE IF body.tools.t # "array" \/ body.tools.items = <<>> THEN body
  ELSE IF Throws(body.tools, opts) THEN body
  ELSE Stringified([body EXCEPT !.tools = transformJsonSchema(body.tools, opts)])

\* the loop of injectThoughtSignature: the last assistant message with tool
\* calls, 0 for targetIndex -1
TargetIndex(msgs) ==
  LET found == {i \in 1..Len(msgs) :
                  /\ msgs[i].plain
                  /\ msgs[i].role = "assistant"
                  /\ msgs[i].tool_calls # <<>>}
  IN IF found = {} THEN 0 ELSE CHOOSE i \in found : \A j \in found : j <= i

\* firstCall.extra_content after `if (!firstCall.extra_content)`, and
\* extraContent.google after `if (!extraContent.google)`
ExtraContentOf(call) == IF call.extra = "absent" THEN "object" ELSE call.extra
GoogleOf(call) ==
  IF ExtraContentOf(call) = "object" /\ call.google = "absent" THEN "object"
  ELSE call.google

\* the injection throws: a property is set on a string
InjectThrows(call) ==
  \/ ExtraContentOf(call) = "string"
  \/ ExtraContentOf(call) = "object" /\ GoogleOf(call) = "string"

\* the first tool call as JSON.stringify writes it after the injection: a
\* property set on an array is not written
InjectedCall(call, sig) ==
  IF ExtraContentOf(call) = "object" /\ GoogleOf(call) = "object"
  THEN Call(TRUE, "object", "object", sig)
  ELSE call

\* the last message with tool calls, whatever its role
TargetIndexAnyRole(msgs) ==
  LET found == {i \in 1..Len(msgs) : msgs[i].plain /\ msgs[i].tool_calls # <<>>}
  IN IF found = {} THEN 0 ELSE CHOOSE i \in found : \A j \in found : j <= i

\* injectThoughtSignature that does not look at the role of the message
injectThoughtSignatureAnyRole(body, thoughtSignature) ==
  IF ~body.valid THEN body
  ELSE IF body.messages.t # "array" \/ body.messages.items = <<>> THEN body
  ELSE IF TargetIndexAnyRole(body.messages.items) = 0 THEN body
  ELSE IF ~body.messages.items[TargetIndexAnyRole(body.messages.items)].tool_calls[1].plain
  THEN body
  ELSE IF InjectThrows(body.messages.items[TargetIndexAnyRole(body.messages.items)].tool_calls[1])
  THEN body
  ELSE Stringified(
         [body EXCEPT !.messages.items[TargetIndexAnyRole(body.messages.items)].tool_calls[1] =
                        InjectedCall(@, thoughtSignature)])

\* injectThoughtSignature(body, thoughtSignature)
injectThoughtSignature(body, thoughtSignature) ==
  IF ~body.valid THEN body
  ELSE IF body.messages.t # "array" \/ body.messages.items = <<>> THEN body
  ELSE IF TargetIndex(body.messages.items) = 0 THEN body
  ELSE IF ~body.messages.items[TargetIndex(body.messages.items)].tool_calls[1].plain
  THEN body
  ELSE IF InjectThrows(body.messages.items[TargetIndex(body.messages.items)].tool_calls[1])
  THEN body
  ELSE Stringified(
         [body EXCEPT !.messages.items[TargetIndex(body.messages.items)].tool_calls[1] =
                        InjectedCall(@, thoughtSignature)])

(***************************************************************************)
(* The wrapped fetch and the response streams it serves, one at a time.    *)
(***************************************************************************)
VARIABLES
  options,               \* patchToolCallIndex, handleThoughtSignature
  STREAM_PATCH_CONFIG,   \* filterEmptyChunksAfterToolCalls, assignMissingIndices
  thoughtSignatureState, \* .value of the closure-level state (NoSig: undefined)
  phase,                 \* of the current response: idle, streaming (piped through
                         \* patchSseStream), raw (returned untouched), closed,
                         \* errored, cancelled
  streamState,           \* patchSseStream's `state`
  buffer,                \* patchSseStream's `buffer`: <<>> or the one event whose
                         \* delimiter has not arrived
  lastPull,              \* the events the last read handled, each with what was
                         \* enqueued for it
  received,              \* events the upstream has sent on this response
  finishSeen,            \* an event with finish_reason "tool_calls" was handled
  streams,               \* responses served so far
  request,               \* <<body>> of the request patchedFetch was called with and
                         \* whose response has not been read yet, else <<>>
  sent,                  \* <<body>> that patchedFetch handed to baseFetch for it
  schemaRun,             \* a schema and what transformJsonSchema made of it, pass
                         \* after pass
  conv,                  \* the conversations that share one wrapped fetch
  returned,              \* <<baseFetch's response, the response patchedFetch
                         \* returned for it>> until the response is read, else <<>>
  outError,              \* the error reader.read() rejected with (raised) and the
                         \* error the output stream is in (carried), NoError for none
  readerCancel,          \* the reason reader.cancel was called with and whether
                         \* its promise rejected, NoCancel when it was not called
  flow,                  \* the ReadableStream around pull and cancel, and its
                         \* consumer
  wire                   \* the bytes of the response bodies, the module's
                         \* TextDecoder and the text each stream made of them

pipeVars == <<options, STREAM_PATCH_CONFIG, thoughtSignatureState, phase,
              streamState, buffer, lastPull, received, finishSeen, streams,
              request, sent, returned, outError, readerCancel>>

\* what the wrapped fetch serving one response at a time leaves alone
restVars == <<trkState, trkLog, schemaRun, conv, flow, wire>>

vars == <<trkState, trkLog, options, STREAM_PATCH_CONFIG, thoughtSignatureState,
          phase, streamState, buffer, lastPull, received, finishSeen, streams,
          request, sent, schemaRun, conv, returned, outError, readerCancel, flow, wire>>

\* the configuration that asks for the signature whatever the options say
ConfigAlwaysHandle == [handleThoughtSignature |-> TRUE]

\* the configuration handed to patchSseStream
Config == [handleThoughtSignature |-> options.handleThoughtSignature]

HasToolCallsFinish(event) ==
  event.kind = "chunk" /\
  \E i \in 1..Len(event.choices) : event.choices[i].finish_reason = "tool_calls"

\* the record of one handled event: the event, what was enqueued for it, and
\* whether an event with finish_reason "tool_calls" had been handled before it
Handled(event, out, seenBefore, rebuilt) ==
  [in |-> event, out |-> out, finishBefore |-> seenBefore, rebuilt |-> rebuilt]

\* the options a caller did not set
DefaultOptions ==
  [patchToolCallIndex |-> TRUE, handleThoughtSignature |-> FALSE,
   transformConstToEnum |-> TRUE, additionalKeywordsToRemove |-> {},
   customKeywordTransforms |-> [x |-> "none"]]

\* no request, schema or conversation at hand
NothingElse ==
  /\ request = <<>>
  /\ sent = <<>>
  /\ schemaRun = <<>>
  /\ conv = <<>>

NoError == [raised |-> "<none>", carried |-> "<none>"]
NoCancel == [given |-> "<none>", reason |-> "<none>", failed |-> FALSE]

\* the wrapped fetch before its first call
PipeIdle ==
  /\ returned = <<>>
  /\ outError = NoError
  /\ readerCancel = NoCancel
  /\ flow = <<>>
  /\ wire = <<>>
  /\ thoughtSignatureState = NoSig
  /\ phase = "idle"
  /\ streamState = NewStreamState
  /\ buffer = <<>>
  /\ lastPull = <<>>
  /\ received = 0
  /\ finishSeen = FALSE
  /\ streams = 0

PipeInit ==
  /\ options \in [patchToolCallIndex : BOOLEAN, handleThoughtSignature : BOOLEAN,
                  transformConstToEnum : BOOLEAN,
                  additionalKeywordsToRemove : {{}},
                  customKeywordTransforms : {[x |-> "none"]}]
  /\ NothingElse
  /\ PipeIdle


\* the configuration of the source
Init ==
  /\ TrackerInit
  /\ PipeInit
  /\ STREAM_PATCH_CONFIG =
       [filterEmptyChunksAfterToolCalls |-> FALSE, assignMissingIndices |-> TRUE]

\* the source with either value of filterEmptyChunksAfterToolCalls
InitAnyFilter ==
  /\ TrackerInit
  /\ PipeInit
  /\ STREAM_PATCH_CONFIG \in
       [filterEmptyChunksAfterToolCalls : BOOLEAN, assignMissingIndices : {TRUE}]

\* the tracker on its own, under the options of the source's defaults
TrackerSpecInit ==
  /\ Init
  /\ options = DefaultOptions

\* the response is being read: the request is behind
ResponseRead ==
  /\ request' = <<>>
  /\ sent' = <<>>
  /\ returned' = <<>>

\* the configuration createToolCallIndexPatchedFetch hands to the transform:
\* the removal set with the caller's additions, the transforms with the
\* caller's on top
TransformOptions(o) ==
  [keywordsToRemove |-> keywordsToRemove \cup o.additionalKeywordsToRemove,
   keywordTransforms |->
     [k \in {c \in DOMAIN o.customKeywordTransforms :
               o.customKeywordTransforms[c] # "none"} \cup DOMAIN keywordTransforms |->
        IF k \in DOMAIN o.customKeywordTransforms /\ o.customKeywordTransforms[k] # "none"
        THEN o.customKeywordTransforms[k] ELSE keywordTransforms[k]]]

\* what a call left in `sent`: the operation, the signature it was given to
\* inject (NoSig: none) and the body it returned
Sent(op, sig, body) == [by |-> op, sig |-> sig, body |-> body]

Messages(ms) == [t |-> "array", items |-> ms]
NoMessages == [t |-> "missing", items |-> <<>>]
NoArrayMessages == [t |-> "prim", items |-> <<>>]

\* a tool call as a client writes it, and one that echoes a signature
PlainCall == Call(TRUE, "absent", "absent", NoSig)
EchoCall == Call(TRUE, "object", "object", "old")

\* the body of a request that follows tool calls: tools, and two assistant
\* turns with tool calls
ToolCallTurnBody ==
  Body(TRUE, TRUE, Arr(<<Obj(<<Entry("const", Prim("p"))>>)>>),
       Messages(<<Message(TRUE, "assistant", <<EchoCall>>),
                  Message(TRUE, "assistant", <<PlainCall, PlainCall>>)>>))

\* the requests patchedFetch is called with: without a string body, with a
\* body that is no JSON, with tools and two assistant tool-call turns, and
\* with a user message only
FetchRequests ==
  {<<>>,
   <<Body(FALSE, TRUE, Missing, NoMessages)>>,
   <<ToolCallTurnBody>>,
   <<Body(TRUE, FALSE, Missing, Messages(<<Message(TRUE, "user", <<>>)>>))>>}

\* patchedFetch, "Transform request body if enabled"
TransformedBody(body) ==
  IF options.transformConstToEnum
  THEN transformRequestBody(body, TransformOptions(options))
  ELSE body

\* a fetch that injects nothing
NoSignatureToInject == NoSig

\* the signature patchedFetch injects, NoSig for none
SignatureToInject ==
  IF options.handleThoughtSignature THEN thoughtSignatureState ELSE NoSig

\* patchedFetch, the injection into the transformed body
InjectedBody(body) ==
  IF SignatureToInject # NoSig
  THEN injectThoughtSignature(body, SignatureToInject)
  ELSE body

\* a response of baseFetch: status, status text, the content-type header
\* (NoHeader when it has none) and whether it has a body
Response(st, txt, ct, b) ==
  [status |-> st, statusText |-> txt, contentType |-> ct, hasBody |-> b]

NoHeader == "<null>"

\* contentType.includes("text/event-stream")
IncludesEventStream(ct) ==
  ct \in {"text/event-stream", "text/event-stream; charset=utf-8"}

\* the responses of baseFetch
Responses ==
  {Response(200, "OK", "text/event-stream; charset=utf-8", TRUE),
   Response(503, "Service Unavailable", "text/event-stream", TRUE),
   Response(200, "OK", "application/json", TRUE),
   Response(200, "OK", NoHeader, TRUE),
   Response(200, "OK", "text/event-stream", FALSE)}

\* patchedFetch returns the response of baseFetch itself
PassedThrough(response) ==
  \/ ~options.patchToolCallIndex /\ ~options.handleThoughtSignature
  \/ ~IncludesEventStream(response.contentType)
  \/ ~response.hasBody

\* a Response made around the patched stream without the init that copies the
\* status, the status text and the headers
ReturnedForWithoutInit(response) ==
  IF PassedThrough(response)
  THEN [same |-> TRUE, status |-> response.status, statusText |-> response.statusText,
        contentType |-> response.contentType,
        body |-> IF response.hasBody THEN "upstream" ELSE "none"]
  ELSE [same |-> FALSE, status |-> 200, statusText |-> "",
        contentType |-> NoHeader, body |-> "patched"]

\* what patchedFetch returns for a response of baseFetch: the response itself,
\* or a new Response around the patched stream
ReturnedFor(response) ==
  IF PassedThrough(response)
  THEN [same |-> TRUE, status |-> response.status, statusText |-> response.statusText,
        contentType |-> response.contentType,
        body |-> IF response.hasBody THEN "upstream" ELSE "none"]
  ELSE [same |-> FALSE, status |-> response.status, statusText |-> response.statusText,
        contentType |-> response.contentType, body |-> "patched"]

\* patchedFetch: the body is transformed and handed to baseFetch; the response
\* of baseFetch is returned untouched when all patches are disabled or it is
\* no event stream, else its body is piped through patchSseStream
Fetch(req, response) ==
  /\ phase \in {"idle", "closed", "errored", "cancelled", "bodyless"}
  /\ streams < MaxStreams
  /\ streams' = streams + 1
  /\ phase' = IF ~response.hasBody THEN "bodyless"
              ELSE IF PassedThrough(response) THEN "raw" ELSE "streaming"
  /\ returned' = <<response, ReturnedFor(response)>>
  /\ outError' = NoError
  /\ readerCancel' = NoCancel
  /\ streamState' = NewStreamState
  /\ buffer' = <<>>
  /\ lastPull' = <<>>
  /\ received' = 0
  /\ finishSeen' = FALSE
  /\ request' = req
  /\ sent' = IF req = <<>> THEN <<>>
             ELSE <<Sent("patchedFetch", SignatureToInject,
                         InjectedBody(TransformedBody(req[1])))>>
  /\ UNCHANGED <<options, STREAM_PATCH_CONFIG, thoughtSignatureState>>

\* the events of `events` handled in order by transformEvent, from event i on;
\* handleNext carries on after transformEvent gave r
RECURSIVE handleEvents(_, _, _, _, _)
RECURSIVE handleNext(_, _, _, _, _)
handleNext(events, i, seen, done, r) ==
  handleEvents(events, i + 1, r.state, seen \/ HasToolCallsFinish(events[i]),
               Append(done, Handled(events[i], r.out, seen, r.rebuilt)))

handleEvents(events, i, st, seen, done) ==
  IF i > Len(events) THEN [state |-> st, seen |-> seen, handled |-> done]
  ELSE handleNext(events, i, seen, done,
                  transformEvent(events[i], st, Config, STREAM_PATCH_CONFIG))

\* a pull that enqueues what it handled twice
EnqueuedTwice(r) ==
  /\ streamState' = r.state
  /\ finishSeen' = r.seen
  /\ lastPull' = r.handled \o r.handled

\* the stream after the events of one read were handled with result r
Enqueued(r) ==
  /\ streamState' = r.state
  /\ finishSeen' = r.seen
  /\ lastPull' = r.handled

\* pull, when the read yields a chunk.  The chunk may start with the delimiter
\* that completes the buffered event and then bring one event, with or without
\* its delimiter; or it brings more of the buffered event and no delimiter
\* (delim false and no event), and the buffer goes on holding that event.
Pull(delim, event, closed) ==
  /\ phase = "streaming"
  /\ received + Len(event) <= MaxEvents
  /\ delim => buffer # <<>>
  /\ (~delim /\ buffer # <<>>) => event = <<>>
  /\ delim \/ event # <<>> \/ buffer # <<>>
  /\ closed => event # <<>>
  /\ Enqueued(handleEvents((IF delim THEN buffer ELSE <<>>)
                             \o (IF closed THEN event ELSE <<>>), 1,
                           streamState, finishSeen, <<>>))
  /\ buffer' = IF closed THEN <<>> ELSE IF delim \/ buffer = <<>> THEN event ELSE buffer
  /\ received' = received + Len(event)
  /\ ResponseRead
  /\ UNCHANGED <<options, STREAM_PATCH_CONFIG, thoughtSignatureState, phase, streams,
                 outError, readerCancel>>

\* a hand-over that also stores the absence of a signature
storeForNextRequestAlways(shared, st, config) ==
  IF config.handleThoughtSignature THEN st.thoughtSignature ELSE shared

\* "Store thought_signature when stream completes"
storeForNextRequest(shared, st, config) ==
  IF config.handleThoughtSignature /\ st.thoughtSignature # NoSig
  THEN st.thoughtSignature ELSE shared

\* "Flush remaining buffer": if (buffer.trim().length > 0)
remainingBuffer(buf) ==
  IF buf # <<>> /\ buf[1].kind # "blank" THEN buf ELSE <<>>

\* pull, when the read yields done: the signature is stored, then what is left
\* in the buffer is flushed, then the stream is closed
PullDone ==
  /\ phase = "streaming"
  /\ thoughtSignatureState' =
       storeForNextRequest(thoughtSignatureState, streamState, Config)
  /\ Enqueued(handleEvents(remainingBuffer(buffer), 1, streamState, finishSeen, <<>>))
  /\ buffer' = <<>>
  /\ phase' = "closed"
  /\ ResponseRead
  /\ UNCHANGED <<options, STREAM_PATCH_CONFIG, received, streams, outError, readerCancel>>

\* what reader.read() rejects with, and the reasons a consumer cancels with
ReadErrors == {"network failure", "premature close"}
CancelReasons == {"aborted", "timeout"}

\* a pull that closes the stream when the read throws
PullErrorSwallowed(error) ==
  /\ phase = "streaming"
  /\ phase' = "closed"
  /\ outError' = [raised |-> error, carried |-> "<none>"]
  /\ lastPull' = <<>>
  /\ ResponseRead
  /\ UNCHANGED <<options, STREAM_PATCH_CONFIG, thoughtSignatureState, streamState,
                 buffer, received, finishSeen, streams, readerCancel>>

\* pull, when the read throws: controller.error(error)
PullError(error) ==
  /\ phase = "streaming"
  /\ phase' = "errored"
  /\ outError' = [raised |-> error, carried |-> error]
  /\ lastPull' = <<>>
  /\ ResponseRead
  /\ UNCHANGED <<options, STREAM_PATCH_CONFIG, thoughtSignatureState, streamState,
                 buffer, received, finishSeen, streams, readerCancel>>

\* a cancel that returns the promise of reader.cancel, so that its rejection
\* reaches the consumer
CancelSurfacing(reason, failed, reading) ==
  /\ phase = "streaming"
  /\ phase' = "cancelled"
  /\ readerCancel' = [given |-> reason, reason |-> reason, failed |-> failed]
  /\ outError' = IF failed THEN [outError EXCEPT !.carried = "cancel failed"] ELSE outError
  /\ lastPull' = <<>>
  /\ ResponseRead
  /\ UNCHANGED <<options, STREAM_PATCH_CONFIG, thoughtSignatureState, streamState,
                 finishSeen, buffer, received, streams>>

\* the stream state after the done branch of a pull whose read was outstanding
\* when the reader was cancelled: the remaining buffer is transformed, and
\* controller.enqueue and controller.close throw on the cancelled stream
flushedAfterCancel ==
  handleEvents(remainingBuffer(buffer), 1, streamState, finishSeen, <<>>)

\* cancel(reason): reader.cancel(reason).catch(() => {}), failed telling
\* whether the promise of reader.cancel rejects.  reader.cancel closes the
\* upstream, so the reader.read() of a pull that is outstanding (reading)
\* resolves with done and the pull goes on in its done branch, where
\* controller.error, called from the catch, leaves a cancelled stream as it is.
Cancel(reason, failed, reading) ==
  /\ phase = "streaming"
  /\ phase' = "cancelled"
  /\ readerCancel' = [given |-> reason, reason |-> reason, failed |-> failed]
  /\ thoughtSignatureState' =
       IF reading THEN storeForNextRequest(thoughtSignatureState, streamState, Config)
       ELSE thoughtSignatureState
  /\ streamState' = IF reading THEN flushedAfterCancel.state ELSE streamState
  /\ finishSeen' = IF reading THEN flushedAfterCancel.seen ELSE finishSeen
  /\ lastPull' = <<>>
  /\ ResponseRead
  /\ UNCHANGED <<options, STREAM_PATCH_CONFIG, buffer, received, streams, outError>>

\* the caller reads an event of a response that was returned untouched
ReadRaw(event) ==
  /\ phase = "raw"
  /\ received < MaxEvents
  /\ received' = received + 1
  /\ lastPull' = <<Handled(event, event, finishSeen, FALSE)>>
  /\ finishSeen' = (finishSeen \/ HasToolCallsFinish(event))
  /\ ResponseRead
  /\ UNCHANGED <<options, STREAM_PATCH_CONFIG, thoughtSignatureState, phase,
                 streamState, buffer, streams, outError, readerCancel>>

\* the response that was returned untouched ends
RawDone ==
  /\ phase = "raw"
  /\ phase' = "closed"
  /\ lastPull' = <<>>
  /\ ResponseRead
  /\ UNCHANGED <<options, STREAM_PATCH_CONFIG, thoughtSignatureState, streamState,
                 buffer, received, finishSeen, streams, outError, readerCancel>>

Next ==
  \/ \E req \in FetchRequests, response \in Responses :
       Fetch(req, response) /\ UNCHANGED restVars
  \/ \E delim, closed \in BOOLEAN, event \in {<<>>} \cup {<<e>> : e \in Events} :
       Pull(delim, event, closed) /\ UNCHANGED restVars
  \/ PullDone /\ UNCHANGED restVars
  \/ \E error \in ReadErrors : PullError(error) /\ UNCHANGED restVars
  \/ \E reason \in CancelReasons, failed, reading \in BOOLEAN :
       Cancel(reason, failed, reading) /\ UNCHANGED restVars
  \/ \E event \in Events : ReadRaw(event) /\ UNCHANGED restVars
  \/ RawDone /\ UNCHANGED restVars

\* passes of transformJsonSchema over one schema
MaxPasses == 2

\* a schema about to be transformed, under the default configuration with or
\* without an addition to the removal set
SchemaInit ==
  /\ TrackerInit
  /\ PipeIdle
  /\ STREAM_PATCH_CONFIG =
       [filterEmptyChunksAfterToolCalls |-> FALSE, assignMissingIndices |-> TRUE]
  /\ options \in {[DefaultOptions EXCEPT !.additionalKeywordsToRemove = a] :
                    a \in {{}, {"x"}}}
  /\ request = <<>>
  /\ sent = <<>>
  /\ conv = <<>>
  /\ schemaRun \in {<<schema>> : schema \in SchemasOfDepth(MaxDepth)}

\* transformJsonSchema applied to what the pass before returned
TransformSchema ==
  /\ schemaRun # <<>>
  /\ Len(schemaRun) <= MaxPasses
  /\ schemaRun' = Append(schemaRun,
                         transformJsonSchema(schemaRun[Len(schemaRun)],
                                             TransformOptions(options)))
  /\ UNCHANGED <<trkVars, pipeVars, conv, flow, wire>>

SchemaNext == TransformSchema

\* as SchemaInit, for the parameters of a tool: an object schema with
\* `properties`
ParametersInit ==
  /\ TrackerInit
  /\ PipeIdle
  /\ STREAM_PATCH_CONFIG =
       [filterEmptyChunksAfterToolCalls |-> FALSE, assignMissingIndices |-> TRUE]
  /\ options \in {[DefaultOptions EXCEPT !.additionalKeywordsToRemove = a] :
                    a \in {{}, {"x"}}}
  /\ request = <<>>
  /\ sent = <<>>
  /\ conv = <<>>
  /\ schemaRun \in {<<schema>> : schema \in ObjectSchemas(1)}

\* the shapes of a first tool call
FirstCalls ==
  {Call(FALSE, "absent", "absent", NoSig),
   PlainCall,
   Call(TRUE, "string", "absent", NoSig),
   Call(TRUE, "array", "absent", NoSig),
   Call(TRUE, "object", "absent", NoSig),
   Call(TRUE, "object", "string", NoSig),
   Call(TRUE, "object", "array", NoSig),
   Call(TRUE, "object", "object", NoSig),
   EchoCall}

\* the messages of a conversation: one that is no object, a user turn, an
\* assistant turn without tool calls, a tool turn that has tool_calls, and
\* assistant turns with one or two tool calls
BodyMessages ==
  {Message(FALSE, "", <<>>),
   Message(TRUE, "user", <<>>),
   Message(TRUE, "assistant", <<>>),
   Message(TRUE, "tool", <<PlainCall>>)}
  \cup {Message(TRUE, "assistant", <<c>>) : c \in FirstCalls}
  \cup {Message(TRUE, "assistant", <<c, EchoCall>>) : c \in FirstCalls}

\* sequences of messages up to a length
RECURSIVE MessageLists(_)
MessageLists(n) ==
  IF n = 0 THEN {<<>>}
  ELSE MessageLists(n - 1)
       \cup {Append(ms, m) : ms \in {l \in MessageLists(n - 1) : Len(l) = n - 1},
                             m \in BodyMessages}

\* the `tools` member: missing, no array, empty, and arrays of one schema
BodyTools ==
  {Missing, Prim("p"), Arr(<<>>)}
  \cup {Arr(<<Obj(<<Entry(k, Prim("p")), Entry("type", Prim("p"))>>)>>) :
          k \in {"const", "not", "x"}}
  \cup {Arr(<<Obj(<<Entry("not", Obj(<<Entry("x", Prim("p"))>>))>>)>>),
        Arr(<<Obj(<<Entry("const", Obj(<<Entry("x", Prim("p"))>>))>>)>>)}

\* the bodies given to transformRequestBody and injectThoughtSignature
BodiesOfLength(n) ==
  {Body(FALSE, w, Missing, NoMessages) : w \in BOOLEAN}
  \cup {Body(TRUE, w, tl, ms) :
          w \in BOOLEAN, tl \in BodyTools,
          ms \in {NoMessages, NoArrayMessages} \cup {Messages(l) : l \in MessageLists(n)}}

\* a body about to be handled, the caller having or not having supplied a
\* keyword transform that throws
BodyInit ==
  /\ TrackerInit
  /\ PipeIdle
  /\ STREAM_PATCH_CONFIG =
       [filterEmptyChunksAfterToolCalls |-> FALSE, assignMissingIndices |-> TRUE]
  /\ options \in {[DefaultOptions EXCEPT !.customKeywordTransforms = c] :
                    c \in [x : {"none", "throws"}]}
  /\ request \in {<<body>> : body \in BodiesOfLength(MaxMessages)}
  /\ sent = <<>>
  /\ schemaRun = <<>>
  /\ conv = <<>>

\* transformRequestBody applied to the body
TransformBody ==
  /\ request # <<>> /\ sent = <<>>
  /\ sent' = <<Sent("transformRequestBody", NoSig,
                     transformRequestBody(request[1], TransformOptions(options)))>>
  /\ UNCHANGED <<trkVars, options, STREAM_PATCH_CONFIG, thoughtSignatureState, phase,
                 streamState, buffer, lastPull, received, finishSeen, streams,
                 request, schemaRun, conv, returned, outError, readerCancel, flow, wire>>

\* injectThoughtSignature applied to the body
InjectBody(sig) ==
  /\ request # <<>> /\ sent = <<>>
  /\ sent' = <<Sent("injectThoughtSignature", sig,
                     injectThoughtSignature(request[1], sig))>>
  /\ UNCHANGED <<trkVars, options, STREAM_PATCH_CONFIG, thoughtSignatureState, phase,
                 streamState, buffer, lastPull, received, finishSeen, streams,
                 request, schemaRun, conv, returned, outError, readerCancel, flow, wire>>

BodyNext ==
  \/ TransformBody
  \/ \E sig \in {"sigA", "sigB"} : InjectBody(sig)

(***************************************************************************)
(* Two conversations served by one wrapped fetch, their requests and       *)
(* response streams interleaved.  Each response is read event by event, a  *)
(* read bringing one whole event.                                          *)
(***************************************************************************)
\* requests of one conversation
MaxTurns == 2

Conversations == {"A", "B"}

\* the signature the upstream sends to a conversation
SignatureOf(c) == IF c = "A" THEN "sigA" ELSE "sigB"

\* the events of a conversation's responses: tool calls, with or without the
\* conversation's signature
ConversationEvents(c) ==
  {Chunk(<<Choice(Num(0), NoFinish,
           Delta(NoContent, <<Frag("a", "f", Absent, g)>>, NoSig))>>) :
     g \in {NoSig, SignatureOf(c)}}

\* a conversation: where its response stands, the StreamState of the response,
\* events read from it, requests made, the signature its last completed
\* response captured, and the signature at the first tool call of the last
\* assistant tool-call turn of its last request as handed to baseFetch
NewConversation ==
  [phase |-> "idle", state |-> NewStreamState, received |-> 0, turns |-> 0,
   own |-> NoSig, got |-> NoSig]

\* the thought_signature at the first tool call of the target message
SignatureAtTarget(body) ==
  IF TargetIndex(body.messages.items) = 0 THEN NoSig
  ELSE body.messages.items[TargetIndex(body.messages.items)].tool_calls[1].sig

ConversationsInit ==
  /\ TrackerInit
  /\ PipeIdle
  /\ STREAM_PATCH_CONFIG =
       [filterEmptyChunksAfterToolCalls |-> FALSE, assignMissingIndices |-> TRUE]
  /\ options = [DefaultOptions EXCEPT !.handleThoughtSignature = TRUE]
  /\ request = <<>>
  /\ sent = <<>>
  /\ schemaRun = <<>>
  /\ conv = [c \in Conversations |-> NewConversation]

\* what the conversations leave alone
convFrame == <<trkState, trkLog, options, STREAM_PATCH_CONFIG, phase, streamState,
               buffer, lastPull, received, finishSeen, streams, request, sent,
               returned, outError, readerCancel, flow, wire,
               schemaRun>>

\* patchedFetch for conversation c
ConvFetch(c) ==
  /\ conv[c].phase \in {"idle", "closed"}
  /\ conv[c].turns < MaxTurns
  /\ conv' = [conv EXCEPT ![c].phase = "streaming",
                          ![c].state = NewStreamState,
                          ![c].received = 0,
                          ![c].turns = @ + 1,
                          ![c].got = SignatureAtTarget(InjectedBody(TransformedBody(ToolCallTurnBody)))]
  /\ UNCHANGED <<convFrame, thoughtSignatureState>>

\* pull on the response of conversation c, the read yielding one event
ConvPull(c, event) ==
  /\ conv[c].phase = "streaming"
  /\ conv[c].received < MaxEvents
  /\ conv' = [conv EXCEPT ![c].state =
                            transformEvent(event, @, Config, STREAM_PATCH_CONFIG).state,
                          ![c].received = @ + 1]
  /\ UNCHANGED <<convFrame, thoughtSignatureState>>

\* pull on the response of conversation c, the read yielding done
ConvDone(c) ==
  /\ conv[c].phase = "streaming"
  /\ thoughtSignatureState' =
       storeForNextRequest(thoughtSignatureState, conv[c].state, Config)
  /\ conv' = [conv EXCEPT ![c].phase = "closed",
                          ![c].own = conv[c].state.thoughtSignature]
  /\ UNCHANGED convFrame

\* the response of conversation c is cancelled, a read of its pull being
\* outstanding (reading) or not
ConvCancel(c, reading) ==
  /\ conv[c].phase = "streaming"
  /\ thoughtSignatureState' =
       IF reading THEN storeForNextRequest(thoughtSignatureState, conv[c].state, Config)
       ELSE thoughtSignatureState
  /\ conv' = [conv EXCEPT ![c].phase = "closed",
                          ![c].own = IF reading THEN conv[c].state.thoughtSignature ELSE @]
  /\ UNCHANGED convFrame

ConversationsNext ==
  \E c \in Conversations :
    \/ ConvFetch(c)
    \/ \E event \in ConversationEvents(c) : ConvPull(c, event)
    \/ ConvDone(c)
    \/ \E reading \in BOOLEAN : ConvCancel(c, reading)

(***************************************************************************)
(* The ReadableStream patchSseStream returns, and its consumer             *)
(***************************************************************************)
\* new ReadableStream({pull, cancel}) comes with the default queuing strategy:
\* a high water mark of one chunk
HighWaterMark == 1

\* the chunks one upstream carries at most
MaxChunks == 3

\* the stream as patchSseStream returns it: start has not completed, no pull
\* is under way, the queue is empty, the consumer has no read pending.
\* queue counts the events enqueued and not taken, taken the events the
\* consumer got, pulls the calls of pull, reads the calls of reader.read(),
\* outstanding the reads not yet settled, chunks the chunks read.
NewFlow ==
  [started |-> FALSE, pulling |-> FALSE, pullAgain |-> FALSE,
   queue |-> 0, readRequests |-> 0, closeRequested |-> FALSE, state |-> "readable",
   taken |-> 0, pulls |-> 0, reads |-> 0, outstanding |-> 0, chunks |-> 0]

\* whether the stream calls pull: it is readable and not closing, start has
\* completed, and a read is pending or the queue is below the high water mark
ShouldCallPull(f) ==
  /\ f.state = "readable" /\ ~f.closeRequested
  /\ f.started
  /\ (f.readRequests > 0 \/ HighWaterMark - f.queue > 0)

\* pull(controller) is entered: const { value, done } = await reader.read()
pullCalled(f) ==
  [f EXCEPT !.pulling = TRUE, !.pulls = @ + 1, !.reads = @ + 1, !.outstanding = @ + 1]

\* the stream calls pull if it should, and notes pullAgain when a pull is
\* under way
CallPullIfNeeded(f) ==
  IF ~ShouldCallPull(f) THEN f
  ELSE IF f.pulling THEN [f EXCEPT !.pullAgain = TRUE]
  ELSE pullCalled(f)

\* controller.enqueue of one event: it goes to the pending read if there is
\* one, else into the queue
enqueueOne(f) ==
  CallPullIfNeeded(IF f.readRequests > 0
                   THEN [f EXCEPT !.readRequests = @ - 1, !.taken = @ + 1]
                   ELSE [f EXCEPT !.queue = @ + 1])

RECURSIVE enqueueAll(_, _)
enqueueAll(f, n) == IF n = 0 THEN f ELSE enqueueAll(enqueueOne(f), n - 1)

\* the events a pull enqueued: those transformEvent did not turn into null
EnqueuedCount(handled) ==
  Cardinality({h \in DOMAIN handled : handled[h].out # Dropped})

\* controller.close(): the stream closes at once when the queue is empty and
\* when the queue has been taken otherwise
closeCalled(f) ==
  IF f.queue = 0 THEN [f EXCEPT !.state = "closed", !.readRequests = 0]
  ELSE [f EXCEPT !.closeRequested = TRUE]

\* the consumer's response.body.getReader().read()
readCalled(f) ==
  IF f.queue > 0
  THEN IF f.closeRequested /\ f.queue = 1
       THEN [f EXCEPT !.queue = 0, !.taken = @ + 1, !.state = "closed"]
       ELSE CallPullIfNeeded([f EXCEPT !.queue = @ - 1, !.taken = @ + 1])
  ELSE CallPullIfNeeded([f EXCEPT !.readRequests = @ + 1])

\* one stream at a time, signature handling and index patching on
FlowOptions == [DefaultOptions EXCEPT !.handleThoughtSignature = TRUE]

FlowEvents == SignatureEvents \cup {Plain("done")}

FlowResponse == Response(200, "OK", "text/event-stream", TRUE)

FlowInit ==
  /\ TrackerInit
  /\ options = FlowOptions
  /\ STREAM_PATCH_CONFIG =
       [filterEmptyChunksAfterToolCalls |-> FALSE, assignMissingIndices |-> TRUE]
  /\ NothingElse
  /\ returned = <<>>
  /\ outError = NoError
  /\ readerCancel = NoCancel
  /\ thoughtSignatureState = NoSig
  /\ phase = "idle"
  /\ streamState = NewStreamState
  /\ buffer = <<>> /\ lastPull = <<>>
  /\ received = 0 /\ finishSeen = FALSE /\ streams = 0
  /\ flow = NewFlow
  /\ wire = <<>>

flowFrame == <<trkState, trkLog, schemaRun, conv, wire>>

\* patchedFetch returns the response around the patched stream
FlowFetch ==
  /\ Fetch(<<>>, FlowResponse)
  /\ flow' = NewFlow
  /\ UNCHANGED flowFrame

\* the start of the stream completes
FlowStart ==
  /\ phase = "streaming"
  /\ ~flow.started
  /\ flow' = CallPullIfNeeded([flow EXCEPT !.started = TRUE])
  /\ UNCHANGED <<pipeVars, flowFrame>>

\* a pull that reads again at once when the chunk gave it nothing to enqueue
FlowChunkPumping(delim, event, closed) ==
  /\ flow.outstanding = 1
  /\ flow.chunks < MaxChunks
  /\ Pull(delim, event, closed)
  /\ flow' = IF EnqueuedCount(lastPull') = 0
             THEN [flow EXCEPT !.chunks = @ + 1, !.reads = @ + 1]
             ELSE enqueueAll([flow EXCEPT !.outstanding = 0, !.chunks = @ + 1],
                             EnqueuedCount(lastPull'))
  /\ UNCHANGED flowFrame

\* the outstanding read yields a chunk and pull handles it to its end
FlowChunk(delim, event, closed) ==
  /\ flow.outstanding = 1
  /\ flow.chunks < MaxChunks
  /\ Pull(delim, event, closed)
  /\ flow' = enqueueAll([flow EXCEPT !.outstanding = 0, !.chunks = @ + 1],
                        EnqueuedCount(lastPull'))
  /\ UNCHANGED flowFrame

\* the outstanding read yields done
FlowDone ==
  /\ flow.outstanding = 1
  /\ PullDone
  /\ flow' = closeCalled(enqueueAll([flow EXCEPT !.outstanding = 0],
                                    EnqueuedCount(lastPull')))
  /\ UNCHANGED flowFrame

\* the outstanding read throws
FlowError(error) ==
  /\ flow.outstanding = 1
  /\ PullError(error)
  /\ flow' = [flow EXCEPT !.outstanding = 0, !.queue = 0, !.readRequests = 0,
                          !.state = "errored"]
  /\ UNCHANGED flowFrame

\* the promise pull returned is fulfilled: the stream pulls again if
\* pullAgain was noted
FlowPulled ==
  /\ flow.pulling
  /\ flow.outstanding = 0
  /\ flow' = IF flow.pullAgain
             THEN CallPullIfNeeded([flow EXCEPT !.pulling = FALSE, !.pullAgain = FALSE])
             ELSE [flow EXCEPT !.pulling = FALSE]
  /\ UNCHANGED <<pipeVars, flowFrame>>

\* the consumer, which awaits each read before the next, reads
FlowRead ==
  /\ phase \in {"streaming", "closed"}
  /\ flow.state = "readable"
  /\ flow.readRequests = 0
  /\ flow' = readCalled(flow)
  /\ UNCHANGED <<pipeVars, flowFrame>>

\* the consumer cancels the stream
FlowCancel(reason, failed) ==
  /\ flow.state = "readable" /\ ~flow.closeRequested
  /\ Cancel(reason, failed, flow.outstanding = 1)
  /\ flow' = [flow EXCEPT !.outstanding = 0, !.queue = 0, !.readRequests = 0,
                          !.state = "closed"]
  /\ UNCHANGED flowFrame

\* what the upstream does to the outstanding read
FlowUpstream ==
  \/ \E delim, closed \in BOOLEAN, event \in {<<>>} \cup {<<e>> : e \in FlowEvents} :
       FlowChunk(delim, event, closed)
  \/ FlowDone
  \/ \E error \in ReadErrors : FlowError(error)

FlowNext ==
  \/ FlowFetch
  \/ FlowStart
  \/ FlowUpstream
  \/ FlowPulled
  \/ FlowRead
  \/ \E reason \in CancelReasons, failed \in BOOLEAN : FlowCancel(reason, failed)

TrackerNext ==
  \E call \in TrackerFragments : EnsureCall(call) /\ UNCHANGED <<pipeVars, schemaRun, conv, flow, wire>>

\* the wrapped fetch as the source configures it
Spec == Init /\ [][Next]_vars

\* one wrapped fetch, the streams it returns and their consumer
SpecFlow == FlowInit /\ [][FlowNext]_vars

\* the same where the start of a stream completes, the upstream settles every
\* read (with a chunk, with done or with an error; it carries MaxChunks chunks
\* at most), the promise of pull is settled, and the consumer reads again
\* whenever its last read has been answered
SpecFlowFair ==
  /\ FlowInit /\ [][FlowNext]_vars
  /\ WF_vars(FlowStart)
  /\ WF_vars(FlowUpstream)
  /\ WF_vars(FlowPulled)
  /\ WF_vars(FlowRead)

\* the wrapped fetch with filterEmptyChunksAfterToolCalls set either way
SpecAnyFilter == InitAnyFilter /\ [][Next]_vars

\* the index tracker of one choice
SpecTracker == TrackerSpecInit /\ [][TrackerNext]_vars

\* the two operations on a request body, each on its own
SpecBody == BodyInit /\ [][BodyNext]_vars

\* two conversations on one wrapped fetch
SpecConversations == ConversationsInit /\ [][ConversationsNext]_vars

\* the schema transform applied over and over
SpecSchema == SchemaInit /\ [][SchemaNext]_vars
SpecParameters == ParametersInit /\ [][SchemaNext]_vars

(***************************************************************************)
(* The bytes of a response body.  A byte is an ASCII byte of a line that   *)
(* is no `data:` line ("a"), a carriage return, a line feed, the lead byte  *)
(* of a two-byte UTF-8 sequence or a continuation byte.  The text made of   *)
(* them has the characters "a", "CR", "LF", "ch" for the character of a     *)
(* complete two-byte sequence and "FFFD" for the replacement character.     *)
(* The TextDecoder is the one of the module, shared by all the streams; a   *)
(* stream has the bytes its upstream has yet to deliver (input), the chunks *)
(* reader.read() returned so far, its buffer, the texts it enqueued and     *)
(* whether it has closed.                                                   *)
(***************************************************************************)
\* bytes of one response body
MaxBytes == 4
\* bytes of each of two response bodies read side by side
MaxShared == 2

Bytes == {"a", "CR", "LF", "lead", "trail"}

\* new TextDecoder(): no byte held back
NewDecoder == <<>>

\* decoder.decode(value, {stream: true}) from the bytes held back: the text it
\* returns and the bytes it holds back for the next call
RECURSIVE decodeFrom(_, _, _)
decodeFrom(pending, bytes, text) ==
  IF bytes = <<>> THEN [text |-> text, pending |-> pending]
  ELSE IF pending # <<>>
  THEN IF bytes[1] = "trail"
       THEN decodeFrom(<<>>, Tail(bytes), Append(text, "ch"))
       ELSE decodeFrom(<<>>, bytes, Append(text, "FFFD"))
  ELSE IF bytes[1] = "lead" THEN decodeFrom(<<"lead">>, Tail(bytes), text)
  ELSE IF bytes[1] = "trail" THEN decodeFrom(<<>>, Tail(bytes), Append(text, "FFFD"))
  ELSE decodeFrom(<<>>, Tail(bytes), Append(text, bytes[1]))

decode(pending, value) == decodeFrom(pending, value, <<>>)

\* text.replace(/\r\n/g, "\n")
RECURSIVE replaceCRLF(_)
replaceCRLF(text) ==
  IF text = <<>> THEN <<>>
  ELSE IF Len(text) >= 2 /\ text[1] = "CR" /\ text[2] = "LF"
  THEN <<"LF">> \o replaceCRLF(SubSeq(text, 3, Len(text)))
  ELSE <<text[1]>> \o replaceCRLF(Tail(text))

\* buffer.indexOf("\n\n"), counted from 1, 0 when there is none
indexOfDelimiter(text) ==
  IF \E i \in 1..(Len(text) - 1) : text[i] = "LF" /\ text[i + 1] = "LF"
  THEN CHOOSE i \in 1..(Len(text) - 1) :
         /\ text[i] = "LF" /\ text[i + 1] = "LF"
         /\ \A j \in 1..(i - 1) : ~(text[j] = "LF" /\ text[j + 1] = "LF")
  ELSE 0

\* text.trim().length > 0
HasText(text) == \E i \in 1..Len(text) : text[i] \notin {"CR", "LF"}

\* `${transformed}\n\n` for an event without `data:` line, which
\* transformEvent returns as it is
enqueuedText(event) == event \o <<"LF", "LF">>

\* the loop over the complete events of the buffer
RECURSIVE drain(_, _)
drain(buf, out) ==
  IF indexOfDelimiter(buf) = 0 THEN [buffer |-> buf, out |-> out]
  ELSE drain(SubSeq(buf, indexOfDelimiter(buf) + 2, Len(buf)),
             Append(out, enqueuedText(SubSeq(buf, 1, indexOfDelimiter(buf) - 1))))

\* the flush of the remaining buffer when the upstream is done
flushed(buf, out) == IF HasText(buf) THEN Append(out, enqueuedText(buf)) ELSE out

\* a stream of patchSseStream over the bytes input
NewWireStream(input) ==
  [input |-> input, chunks |-> <<>>, buffer |-> <<>>, out |-> <<>>, ended |-> FALSE]

\* the byte sequences of at most n bytes
RECURSIVE BytesUpTo(_)
BytesUpTo(n) ==
  IF n = 0 THEN {<<>>}
  ELSE BytesUpTo(n - 1) \cup
       {Append(b, x) : b \in {y \in BytesUpTo(n - 1) : Len(y) = n - 1}, x \in Bytes}

WireStreams == DOMAIN wire.streams

\* pull of stream s with reader.read() returning the next n bytes
WireChunk(s, n) ==
  /\ wire # <<>>
  /\ s \in WireStreams
  /\ ~wire.streams[s].ended
  /\ n \in 1..Len(wire.streams[s].input)
  /\ wire' =
       [decoder |-> decode(wire.decoder, SubSeq(wire.streams[s].input, 1, n)).pending,
        streams |->
          [wire.streams EXCEPT ![s] =
             [input |-> SubSeq(@.input, n + 1, Len(@.input)),
              chunks |-> Append(@.chunks, SubSeq(@.input, 1, n)),
              buffer |-> drain(@.buffer \o
                                 replaceCRLF(decode(wire.decoder,
                                                    SubSeq(@.input, 1, n)).text),
                               @.out).buffer,
              out |-> drain(@.buffer \o
                              replaceCRLF(decode(wire.decoder,
                                                 SubSeq(@.input, 1, n)).text),
                            @.out).out,
              ended |-> FALSE]]]
  /\ UNCHANGED <<trkVars, pipeVars, schemaRun, conv, flow>>

\* pull of stream s with reader.read() returning done
WireDone(s) ==
  /\ wire # <<>>
  /\ s \in WireStreams
  /\ ~wire.streams[s].ended
  /\ wire.streams[s].input = <<>>
  /\ wire' = [wire EXCEPT !.streams[s].out = flushed(wire.streams[s].buffer, @),
                          !.streams[s].ended = TRUE]
  /\ UNCHANGED <<trkVars, pipeVars, schemaRun, conv, flow>>

WireNext ==
  \/ \E s \in 1..2, n \in 1..MaxBytes : WireChunk(s, n)
  \/ \E s \in 1..2 : WireDone(s)

\* the wrapped fetch with nothing but the response bodies inputs at hand
WireIdle(inputs) ==
  /\ TrackerInit
  /\ options = DefaultOptions
  /\ STREAM_PATCH_CONFIG =
       [filterEmptyChunksAfterToolCalls |-> FALSE, assignMissingIndices |-> TRUE]
  /\ NothingElse
  /\ returned = <<>>
  /\ outError = NoError
  /\ readerCancel = NoCancel
  /\ thoughtSignatureState = NoSig
  /\ phase = "idle"
  /\ streamState = NewStreamState
  /\ buffer = <<>> /\ lastPull = <<>>
  /\ received = 0 /\ finishSeen = FALSE /\ streams = 0
  /\ flow = <<>>
  /\ wire \in {[decoder |-> NewDecoder,
                streams |-> [s \in DOMAIN input |-> NewWireStream(input[s])]] :
                 input \in inputs}

\* one response body of at most MaxBytes bytes
WireInit == WireIdle({<<input>> : input \in BytesUpTo(MaxBytes)})

\* two response bodies of at most MaxShared bytes each, read in any order
WiresInit == WireIdle(BytesUpTo(MaxShared) \X BytesUpTo(MaxShared))

\* one response body cut into chunks in every way
SpecWire == WireInit /\ [][WireNext]_vars

\* two response bodies, their chunks decoded by the one TextDecoder
SpecWires == WiresInit /\ [][WireNext]_vars

(***************************************************************************)
(* Properties of the index tracker (SpecTracker).                          *)
(***************************************************************************)
TrkCalls == 1..Len(trkLog)

\* the upstream supplied a usable index on the fragment: a number, or a string
\* that starts with a digit
Supplied(call) ==
  \/ call.index.t = "number"
  \/ call.index.t = "string" /\ call.index.s # <<>> /\ IsDigit(call.index.s[1])

KeyAt(i) == getToolCallKey(trkLog[i].in)
OutAt(i) == trkLog[i].out.index

\* the logical call a fragment belongs to: by its id, else by its function name
CallOf(call) ==
  IF call.id # NoStr THEN <<"id", call.id>>
  ELSE IF call.name # NoStr THEN <<"name", call.name>>
  ELSE <<"none", NoStr>>

\* call i is the first of its key, or has no key: a call seen for the first time
FirstSeen(i) ==
  KeyAt(i) = NoKey \/ \A h \in 1..(i - 1) : KeyAt(h) # KeyAt(i)

C3_SplitCallOneIndex ==
  \A i, j \in TrkCalls :
    ( /\ CallOf(trkLog[i].in)[1] # "none"
      /\ CallOf(trkLog[i].in) = CallOf(trkLog[j].in)
      /\ \A h \in TrkCalls :
           CallOf(trkLog[h].in) = CallOf(trkLog[i].in) => trkLog[h].in.index = Absent )
    => OutAt(i) = OutAt(j)

\* C4: two calls with different ids, interleaved in one choice in which the
\* upstream supplies no index, are emitted with two different indices, and every
\* fragment of each call is emitted with the index of its call.
C4_DistinctIdsDistinctIndices ==
  (\A h \in TrkCalls : ~Supplied(trkLog[h].in)) =>
    \A i, j \in TrkCalls :
      (trkLog[i].in.id # NoStr /\ trkLog[j].in.id # NoStr) =>
        (OutAt(i) = OutAt(j)) = (trkLog[i].in.id = trkLog[j].in.id)

\* the fragments of two ids interleaved: a, fn:f, a
C4_Witness ==
  /\ Len(trkLog) = 3
  /\ \A h \in TrkCalls : trkLog[h].in.index = Absent
  /\ trkLog[1].in.id = "a" /\ trkLog[2].in.id = "fn:f" /\ trkLog[3].in.id = "a"
  /\ OutAt(1) = Num(0) /\ OutAt(2) = Num(1) /\ OutAt(3) = Num(0)

\* the distinct keys of calls 1..i, and the number of calls among 1..i that were
\* seen for the first time
KeysUpTo(i) == {KeyAt(h) : h \in {g \in 1..i : KeyAt(g) # NoKey}}
FirstSeenUpTo(i) == Cardinality({h \in 1..i : FirstSeen(h)})
\* the first call that has the key of call i
FirstOf(i) == CHOOSE h \in 1..i : KeyAt(h) = KeyAt(i) /\ \A g \in 1..(h - 1) : KeyAt(g) # KeyAt(i)

\* C5 as stated: when the upstream supplies no index in a choice, the k distinct
\* keyed calls receive exactly 0..k-1 in first-seen order.
C5_KeyedCallsDense ==
  (\A h \in TrkCalls : ~Supplied(trkLog[h].in)) =>
    \A i \in TrkCalls :
      KeyAt(i) # NoKey => OutAt(i) = Num(Cardinality(KeysUpTo(FirstOf(i))) - 1)

\* C5 amended: when the upstream supplies no index in a choice, the distinct
\* keyed calls and the fragments without a key, each of which counts as a call of
\* its own, receive exactly 0..m-1 in first-seen order, and a repeated key
\* repeats its index; the keyed calls alone are dense only when every fragment
\* has a key.
C5_FirstSeenDense ==
  (\A h \in TrkCalls : ~Supplied(trkLog[h].in)) =>
    /\ \A i \in TrkCalls : FirstSeen(i) => OutAt(i) = Num(FirstSeenUpTo(i) - 1)
    /\ \A i, j \in TrkCalls :
         (KeyAt(i) # NoKey /\ KeyAt(i) = KeyAt(j)) => OutAt(i) = OutAt(j)
    /\ trkState.nextIndex = FirstSeenUpTo(Len(trkLog))
    /\ (\A h \in TrkCalls : KeyAt(h) # NoKey) =>
         \A i \in TrkCalls : OutAt(i) = Num(Cardinality(KeysUpTo(FirstOf(i))) - 1)

\* a keyed call, a fragment without a key, then a second keyed call: 0, 1, 2
C5_Witness ==
  /\ Len(trkLog) = 3
  /\ \A h \in TrkCalls : trkLog[h].in.index = Absent
  /\ KeyAt(1) = "a" /\ KeyAt(2) = NoKey /\ KeyAt(3) = "fn:f"
  /\ OutAt(3) = Num(2)

\* the number a numeric index string stands for
NumericStrings == {<<"2">>}
ValueOf(cs) == IF cs = <<"2">> THEN 2 ELSE 0
NextIndexAfter(i) == IF i < Len(trkLog) THEN trkLog[i + 1].before ELSE trkState.nextIndex

\* C7: a fragment whose index is the numeric string n is emitted with the number
\* n and reported as mutated, nextIndex is at least n+1 after it, and a later
\* fragment with a new key and no index receives n+1 or more: 3 right after "2"
\* on a fresh choice.
C7_NumericStringIndex ==
  \A i \in TrkCalls :
    (trkLog[i].in.index.t = "string" /\ trkLog[i].in.index.s \in NumericStrings) =>
      LET n == ValueOf(trkLog[i].in.index.s)
      IN /\ OutAt(i) = Num(n)
         /\ trkLog[i].mutated
         /\ NextIndexAfter(i) >= n + 1
         /\ \A j \in (i + 1)..Len(trkLog) :
              (trkLog[j].in.index = Absent /\ FirstSeen(j)) =>
                /\ OutAt(j).n >= n + 1
                /\ (i = 1 /\ j = 2) => OutAt(j) = Num(n + 1)

\* "2" on a fresh choice, then a new key without an index, which receives 3
C7_Witness ==
  /\ Len(trkLog) >= 2
  /\ trkLog[1].in.index = Str(<<"2">>) /\ OutAt(1) = Num(2) /\ trkLog[1].mutated
  /\ trkLog[2].in.index = Absent /\ KeyAt(2) # KeyAt(1) /\ KeyAt(2) # NoKey
  /\ OutAt(2) = Num(3)

(***************************************************************************)
(* Properties of the SSE pipeline and the wrapped fetch (Spec and          *)
(* SpecAnyFilter).                                                         *)
(***************************************************************************)
Pulled == 1..Len(lastPull)

\* the events of lastPull went through patchSseStream
Piped == phase # "raw"

\* the tool-call fragments of a chunk event
FragmentsOf(event) ==
  UNION {{event.choices[i].delta.tool_calls[j] :
            j \in 1..Len(event.choices[i].delta.tool_calls)} :
         i \in {c \in 1..Len(event.choices) : event.choices[c].delta.has}}

\* C1 as stated: the trailing buffer is flushed before the hand-off, so when the
\* output stream closes SignatureState holds the last signature captured from
\* any event of the stream, the one flushed from the trailing buffer included.
C1_HandoffAfterFlush ==
  (phase = "closed" /\ options.handleThoughtSignature
     /\ streamState.thoughtSignature # NoSig)
  => thoughtSignatureState = streamState.thoughtSignature

\* C6: in every chunk event the pipeline forwards, every tool-call fragment
\* carries an index that is a finite number, however the upstream sent it.
C6_ForwardedIndexFinite ==
  Piped =>
    \A h \in Pulled :
      lastPull[h].out.kind = "chunk" =>
        \A f \in FragmentsOf(lastPull[h].out) : f.index.t = "number"

\* a fragment that came with a non-numeric string index is forwarded
C6_Witness ==
  /\ Piped
  /\ \E h \in Pulled :
       /\ lastPull[h].in.kind = "chunk" /\ lastPull[h].out.kind = "chunk"
       /\ \E f \in FragmentsOf(lastPull[h].in) : f.index = Str(<<"x">>)
       /\ \E f \in FragmentsOf(lastPull[h].out) : f.index.t = "number"

\* an event handled after one with finish_reason "tool_calls", in which some
\* choice has a delta object and every delta object has neither a non-empty
\* content string nor a non-empty tool_calls array
EmptyAfterFinish(h) ==
  /\ h.finishBefore
  /\ h.in.kind = "chunk"
  /\ \E i \in 1..Len(h.in.choices) : h.in.choices[i].delta.has
  /\ \A i \in 1..Len(h.in.choices) :
       h.in.choices[i].delta.has =>
         /\ h.in.choices[i].delta.content \in {NoContent, ""}
         /\ h.in.choices[i].delta.tool_calls = <<>>

FilteringEnabled == Piped /\ STREAM_PATCH_CONFIG.filterEmptyChunksAfterToolCalls

C9_FilteredWhenPatchEnabled ==
  (options.patchToolCallIndex /\ Piped) =>
    \A h \in Pulled : EmptyAfterFinish(lastPull[h]) => lastPull[h].out = Dropped

\* C10 as stated: with patchToolCallIndex false, whatever the other options,
\* no index is assigned or rewritten and no event is dropped: every event is
\* forwarded with its payload unchanged.
C10_NoPatchWhenDisabled ==
  ~options.patchToolCallIndex =>
    \A h \in Pulled : lastPull[h].out = lastPull[h].in

\* the parts of a StreamState other than the chunk counter
SameStreamState(a, b) ==
  /\ a.toolCallState = b.toolCallState
  /\ a.sawToolCallsFinish = b.sawToolCallsFinish
  /\ a.thoughtSignature = b.thoughtSignature

\* transformEvent on the stream as it stands
TransformNow(event) == transformEvent(event, streamState, Config, STREAM_PATCH_CONFIG)

\* transformEvent leaves the event and the stream state as they are
LeftAlone(event, r) == r.out = event /\ SameStreamState(r.state, streamState)

\* payloads that parse but have no choices to process
NoChoicesEvents == {Plain("nochoices"), Plain("emptychoices")}

After(r, event) == transformEvent(event, r.state, Config, STREAM_PATCH_CONFIG)

GivenSchema == schemaRun[1]
TransformedSchema == schemaRun[2]

\* a key of keys is in val at some nesting depth
RECURSIVE ContainsKey(_, _)
ContainsKey(val, keys) ==
  IF val.t = "prim" THEN FALSE
  ELSE IF val.t = "array"
  THEN \E i \in 1..Len(val.items) : ContainsKey(val.items[i], keys)
  ELSE \E i \in 1..Len(val.items) :
         val.items[i].v \in keys \/ ContainsKey(val.items[i].items[1], keys)

\* the value of key k in an object, with Has telling whether it has the key
Has(obj, k) == \E i \in 1..Len(obj.items) : obj.items[i].v = k
ValueAt(obj, k) == obj.items[CHOOSE i \in 1..Len(obj.items) : obj.items[i].v = k].items[1]

\* wherever from has `const: v`, to has `enum: [v]` at the same position
RECURSIVE EnumWhereConst(_, _, _)
EnumWhereConst(from, to, removed) ==
  IF from.t = "prim" THEN TRUE
  ELSE IF from.t = "array"
  THEN /\ to.t = "array" /\ Len(to.items) = Len(from.items)
       /\ \A i \in 1..Len(from.items) : EnumWhereConst(from.items[i], to.items[i], removed)
  ELSE /\ to.t = "object"
       /\ \A i \in 1..Len(from.items) :
            IF from.items[i].v \in removed THEN TRUE
            ELSE IF from.items[i].v = "const"
            THEN Has(to, "enum") /\ ValueAt(to, "enum") = Arr(<<from.items[i].items[1]>>)
            ELSE IF from.items[i].v = "enum" /\ Has(from, "const") THEN TRUE
            ELSE /\ Has(to, from.items[i].v)
                 /\ EnumWhereConst(from.items[i].items[1],
                                   ValueAt(to, from.items[i].v), removed)

\* C13 as stated: the transform is idempotent under the default
\* configuration: a second pass returns what the first pass returned, also when
\* the value of `const` is an object or array with removable keywords or `const`.
C13_Idempotent ==
  (Len(schemaRun) >= 3 /\ options = DefaultOptions) => schemaRun[3] = schemaRun[2]

\* C14 as stated: where the schema has `const: v` the transformed schema has
\* `enum: [v]`, and the transformed schema has no `const` key at any depth, the
\* value placed in the enum array included.
C14_ConstBecomesEnum ==
  Len(schemaRun) >= 2 =>
    /\ EnumWhereConst(GivenSchema, TransformedSchema,
                      TransformOptions(options).keywordsToRemove)
    /\ ~ContainsKey(TransformedSchema, {"const"})

\* C15 as stated: the transformed schema has no keyword of the removal set,
\* the caller's additions included, at any nesting depth.
C15_RemovedEverywhere ==
  Len(schemaRun) >= 2 =>
    ~ContainsKey(TransformedSchema, TransformOptions(options).keywordsToRemove)

(***************************************************************************)
(* Properties of the two operations on a request body (SpecBody).          *)
(***************************************************************************)
\* the operation op was applied to the body at hand
Applied(op) == request # <<>> /\ sent # <<>> /\ sent[1].by = op

HasTools(body) == body.valid /\ body.tools.t = "array" /\ body.tools.items # <<>>

\* C16: transformRequestBody returns the original body string when the body
\* is no JSON, when it has no non-empty `tools` array, and when a step of the
\* transformation throws, a keyword transform of the caller included; else it
\* returns the body with `tools` replaced by the transformed array and nothing
\* else changed.  It raises in no case.
C16_TransformBodyOrOriginal ==
  Applied("transformRequestBody") =>
    IF ~HasTools(request[1]) \/ Throws(request[1].tools, TransformOptions(options))
    THEN sent[1].body = request[1]
    ELSE /\ sent[1].body.valid
         /\ sent[1].body.messages = request[1].messages
         /\ sent[1].body.tools =
              transformJsonSchema(request[1].tools, TransformOptions(options))

\* a keyword transform of the caller threw on a schema of the tools, and the
\* body came back as it was
C16_Witness ==
  /\ Applied("transformRequestBody")
  /\ HasTools(request[1])
  /\ options.customKeywordTransforms.x = "throws"
  /\ ContainsKey(request[1].tools, {"x"})
  /\ Throws(request[1].tools, TransformOptions(options))
  /\ sent[1].body = request[1]

\* message i is an assistant turn with a non-empty tool_calls array
AssistantToolCalls(body, i) ==
  /\ body.messages.items[i].plain
  /\ body.messages.items[i].role = "assistant"
  /\ body.messages.items[i].tool_calls # <<>>

\* message i is the last assistant turn with tool calls
LastAssistantToolCalls(body, i) ==
  /\ AssistantToolCalls(body, i)
  /\ \A j \in (i + 1)..Len(body.messages.items) : ~AssistantToolCalls(body, j)

\* C18: injectThoughtSignature returns the original body string, and raises
\* nothing, when the body is no JSON, when `messages` is missing or empty, when
\* no message is an assistant turn with a non-empty tool_calls array, and when
\* the first tool call of the target message is no plain object.
C18_InjectLeavesBody ==
  ( /\ Applied("injectThoughtSignature")
    /\ \/ ~request[1].valid
       \/ request[1].messages.t # "array"
       \/ request[1].messages.items = <<>>
       \/ \A i \in 1..Len(request[1].messages.items) : ~AssistantToolCalls(request[1], i)
       \/ \E i \in 1..Len(request[1].messages.items) :
             /\ LastAssistantToolCalls(request[1], i)
             /\ ~request[1].messages.items[i].tool_calls[1].plain )
  => sent[1].body = request[1]

\* a body written with white space whose only tool calls are in a tool turn
\* came back as it was
C18_Witness ==
  /\ Applied("injectThoughtSignature")
  /\ request[1].valid /\ request[1].ws
  /\ request[1].messages.t = "array"
  /\ \E i \in 1..Len(request[1].messages.items) :
       request[1].messages.items[i].tool_calls # <<>>
  /\ \A i \in 1..Len(request[1].messages.items) : ~AssistantToolCalls(request[1], i)
  /\ sent[1].body = request[1]

(***************************************************************************)
(* Properties of the signature bridge across a response and the next       *)
(* request (Spec).                                                         *)
(***************************************************************************)
\* the tool calls of a body other than the first one of message i are those
\* of the request
OtherCallsAsGiven(given, out, i) ==
  /\ out.messages.t = "array"
  /\ Len(out.messages.items) = Len(given.messages.items)
  /\ \A m \in 1..Len(given.messages.items) :
       IF m # i THEN out.messages.items[m] = given.messages.items[m]
       ELSE /\ Len(out.messages.items[m].tool_calls) = Len(given.messages.items[m].tool_calls)
            /\ \A c \in 2..Len(given.messages.items[m].tool_calls) :
                 out.messages.items[m].tool_calls[c] = given.messages.items[m].tool_calls[c]

\* the body out carries sig at tool_calls[0].extra_content.google.thought_signature
\* of the last assistant turn with tool calls of the body given, and the other
\* tool calls are as given
CarriesAtTargetOnly(given, out, sig) ==
  \E i \in 1..Len(given.messages.items) :
    /\ LastAssistantToolCalls(given, i)
    /\ OtherCallsAsGiven(given, out, i)
    /\ out.messages.items[i].tool_calls[1].extra = "object"
    /\ out.messages.items[i].tool_calls[1].google = "object"
    /\ out.messages.items[i].tool_calls[1].sig = sig

\* the request has an assistant turn with a non-empty tool_calls array
HasTarget(req) ==
  /\ req # <<>>
  /\ req[1].valid
  /\ req[1].messages.t = "array"
  /\ \E i \in 1..Len(req[1].messages.items) : AssistantToolCalls(req[1], i)

\* C17 as stated: when a stream has completed with a captured signature and
\* the next request of the same fetch instance has assistant turns with tool
\* calls, the body handed on carries exactly the captured string at the first
\* tool call of the last such turn, and at no other tool call.
C17_CapturedSignatureInjected ==
  [][ ( /\ phase = "closed"
        /\ options.handleThoughtSignature
        /\ streamState.thoughtSignature # NoSig
        /\ streams' = streams + 1
        /\ HasTarget(request') )
      => CarriesAtTargetOnly(request'[1], sent'[1].body, streamState.thoughtSignature) ]_vars

\* C20: with handleThoughtSignature false no signature is extracted, the
\* SignatureState stays absent, and every request body is handed on without a
\* signature injected, whatever the response streams contain.
C20_NoSignatureHandling ==
  ~options.handleThoughtSignature =>
    /\ thoughtSignatureState = NoSig
    /\ streamState.thoughtSignature = NoSig
    /\ sent # <<>> =>
         /\ sent[1].sig = NoSig
         /\ sent[1].body.messages = request[1].messages

\* an event with a signature was forwarded and none was captured
C20_Witness ==
  /\ ~options.handleThoughtSignature
  /\ phase = "streaming"
  /\ \E h \in Pulled : lastPull[h].in \in SignatureEvents
  /\ streamState.thoughtSignature = NoSig

(***************************************************************************)
(* Properties of two conversations on one fetch instance                   *)
(* (SpecConversations).                                                    *)
(***************************************************************************)
\* C19: the SignatureState has no conversation key: every request, of
\* whichever conversation, is handed on with the signature the SignatureState
\* holds at that moment, so with the two conversations in flight at once a
\* signature extracted from a response of conversation A is injected into a
\* request of conversation B.
C19_SharedSignatureState ==
  [][ \A c \in Conversations :
        conv'[c].turns = conv[c].turns + 1 =>
          /\ conv'[c].got = thoughtSignatureState
          /\ \A d \in Conversations :
               ( /\ d # c
                 /\ conv[d].phase = "streaming"
                 /\ conv[d].own # NoSig
                 /\ thoughtSignatureState = conv[d].own )
               => conv'[c].got = conv[d].own ]_vars

\* conversation B, whose own last response handed over sigB, has a request in
\* flight that carries sigA, the response of conversation A in flight too
C19_Witness ==
  /\ conv # <<>>
  /\ conv["A"].phase = "streaming"
  /\ conv["B"].phase = "streaming"
  /\ conv["B"].own = "sigB"
  /\ conv["B"].got = "sigA"


\* ---------------------------------------------------------------------------
\* The response patchedFetch returns, read errors, cancellation
\* ---------------------------------------------------------------------------

\* patchedFetch has returned and the response was not read yet
JustReturned == returned # <<>>

AllPatchingDisabled ==
  ~options.patchToolCallIndex /\ ~options.handleThoughtSignature

\* C21: when all patching is disabled, or the content-type of the response is
\* not text/event-stream, or the response has no body, patchedFetch returns the
\* very response of baseFetch; otherwise it returns a response with the same
\* status, status text and headers whose body is the output of the pipeline.
C21_ResponseFrame ==
  JustReturned =>
    IF \/ AllPatchingDisabled
       \/ returned[1].contentType \notin
            {"text/event-stream", "text/event-stream; charset=utf-8"}
       \/ ~returned[1].hasBody
    THEN /\ returned[2].same
         /\ phase \in {"raw", "bodyless"}
    ELSE /\ ~returned[2].same
         /\ returned[2].status = returned[1].status
         /\ returned[2].statusText = returned[1].statusText
         /\ returned[2].contentType = returned[1].contentType
         /\ returned[2].body = "patched"
         /\ phase = "streaming"

\* a 503 event stream was wrapped
C21_Witness ==
  /\ JustReturned
  /\ ~returned[2].same
  /\ returned[1].status = 503
  /\ returned[2].body = "patched"

\* C22: a read that throws after streaming has begun leaves the output stream
\* errored with the error the read threw: the stream is not closed, the step
\* emits nothing, and from then on the stream stays errored with the same
\* error and emits nothing.
C22_ReadErrorIsTerminal ==
  [][ /\ outError'.raised # NoError.raised
          => /\ phase' = "errored"
             /\ outError'.carried = outError'.raised
             /\ lastPull' = <<>>
      /\ (outError.raised # NoError.raised /\ streams' = streams)
          => outError' = outError ]_vars

\* a stream that had handled an event is errored by a network failure
C22_Witness ==
  /\ phase = "errored"
  /\ outError.raised = "network failure"
  /\ outError.carried = "network failure"
  /\ received > 0

\* C23: when the consumer cancels the output stream, reader.cancel is called
\* with the consumer's reason, and the output stream is in no error whether
\* or not the promise of reader.cancel rejected.
C23_CancelSwallowsFailure ==
  phase = "cancelled" =>
    /\ readerCancel.given \in CancelReasons
    /\ readerCancel.reason = readerCancel.given
    /\ outError = NoError

\* a cancellation whose reader.cancel rejected
C23_Witness ==
  /\ phase = "cancelled"
  /\ readerCancel.reason = "timeout"
  /\ readerCancel.failed


\* ---------------------------------------------------------------------------
\* The stream and its consumer
\* ---------------------------------------------------------------------------

\* C24: every call of pull makes exactly one reader.read(), a read is made
\* only by a call of pull, at most one read is outstanding, and pull is
\* called only when what was enqueued has been taken by the consumer.
C24_OneReadPerPull ==
  [][ /\ flow'.reads = flow'.pulls
      /\ flow'.outstanding <= 1
      /\ flow'.outstanding = 1 => flow'.pulling
      /\ (flow'.reads # flow.reads /\ streams' = streams)
          => /\ flow'.reads = flow.reads + 1
             /\ flow'.pulls = flow.pulls + 1
             /\ flow.outstanding = 0
             /\ flow'.queue = 0 ]_vars

\* after two pulls, each with its read, an event waits in the queue and no
\* read is outstanding until the consumer takes it
C24_Witness ==
  /\ phase = "streaming"
  /\ flow.pulls = 2 /\ flow.reads = 2
  /\ flow.queue = 1
  /\ flow.outstanding = 0 /\ ~flow.pulling

\* C25: a stream that is being read ends: when the upstream settles every
\* read and the consumer keeps reading, the output stream is eventually
\* closed (or errored by a read error), also when pulls enqueue nothing.
C25_StreamEventuallyEnds ==
  (phase = "streaming") ~> (flow.state # "readable")


\* ---------------------------------------------------------------------------
\* Keys, the finish latch and the captured signature
\* ---------------------------------------------------------------------------

\* C26: a fragment that has an id and a fragment that has no id but a function
\* name never derive the same key, whatever the id and the name are, and so
\* never share an entry of assigned.
C26_IdAndNameKeysApart ==
  \A i, j \in TrkCalls :
    ( /\ trkLog[i].in.id # NoStr
      /\ trkLog[j].in.id = NoStr /\ trkLog[j].in.name # NoStr )
    => KeyAt(i) # KeyAt(j)

\* the step handled an event that has finish_reason "tool_calls" on some choice
\* and was not dropped: an event of the pull, or the buffered event handled in
\* the done branch that a cancellation runs
HandledToolCallsFinish ==
  \/ \E h \in DOMAIN lastPull' :
       HasToolCallsFinish(lastPull'[h].in) /\ lastPull'[h].out # Dropped
  \/ /\ phase' = "cancelled"
     /\ \E h \in DOMAIN buffer : HasToolCallsFinish(buffer[h])

CarriedSignature(event) ==
  IF event.kind = "chunk" THEN extractThoughtSignature(event.choices) ELSE NoSig

\* C28: with signature handling enabled, the signature carried by the event
\* handled last is the stream's captured signature, whatever was captured
\* before and whether the event was forwarded or dropped by the empty-chunk
\* filter; and so it is for every event the stream may handle next.
C28_ExtractionBeforeDrop ==
  (Piped /\ options.handleThoughtSignature) =>
    /\ (lastPull # <<>> /\ CarriedSignature(lastPull[Len(lastPull)].in) # NoSig)
       => streamState.thoughtSignature = CarriedSignature(lastPull[Len(lastPull)].in)
    /\ \A event \in SignatureEvents :
         TransformNow(event).state.thoughtSignature = CarriedSignature(event)

\* an event that carries sigA was dropped after the tool-calls finish, and the
\* stream holds sigA
C28_Witness ==
  /\ phase = "streaming"
  /\ options.handleThoughtSignature
  /\ lastPull # <<>>
  /\ lastPull[Len(lastPull)].out = Dropped
  /\ CarriedSignature(lastPull[Len(lastPull)].in) = "sigA"
  /\ streamState.thoughtSignature = "sigA"

C30_WrittenOnlyAtCompletion ==
  [][ thoughtSignatureState' # thoughtSignatureState
        => (phase = "streaming" /\ phase' = "closed") ]_vars


\* ---------------------------------------------------------------------------
\* Sequential requests, scopes of state, serialisation
\* ---------------------------------------------------------------------------

\* C31: with signature handling on and each request made after the stream of
\* the previous response has closed, the first request is handed on without a
\* signature, and the request after a completed stream is given the
\* signature that stream captured (none if it captured none and no stream
\* before it did).
C31_SequentialInjection ==
  [][ ( /\ streams' = streams + 1
        /\ options.handleThoughtSignature
        /\ request' # <<>> )
      => IF streams = 0
         THEN sent'[1].sig = NoSig /\ sent'[1].body.messages = request'[1].messages
         ELSE phase = "closed" => sent'[1].sig = streamState.thoughtSignature ]_vars

\* the choice is choice k of its event: it carries index k, or no index and
\* k is 0
IsChoice(choice, k) ==
  \/ choice.index = Num(k)
  \/ k = 0 /\ choice.index \in {Absent, Null}

\* the index state of choice k after the stream in state st handled event
IndexStateAfter(event, st, k) ==
  transformEvent(event, st, Config, STREAM_PATCH_CONFIG).state.toolCallState[k]

AllIndicesNumeric(event) ==
  event.kind = "chunk" /\ \A f \in FragmentsOf(event) : f.index.t = "number"

C34_DistinctKeysDistinctIndices ==
  /\ \A i, j \in TrkCalls :
       (KeyAt(i) # NoKey /\ KeyAt(j) # NoKey /\ KeyAt(i) # KeyAt(j))
       => OutAt(i) # OutAt(j)
  /\ \A a, b \in DOMAIN trkState.assigned :
       a # b => trkState.assigned[a] # trkState.assigned[b]

\* C37: nextIndex never decreases from one fragment to the next and is
\* greater than every index recorded in assigned.
C37_NextIndexAboveAssigned ==
  /\ \A i \in TrkCalls : trkLog[i].before <= NextIndexAfter(i)
  /\ \A k \in DOMAIN trkState.assigned : trkState.assigned[k] < trkState.nextIndex

\* the events the step handled, in the order in which it handled them
HandledNow == [h \in DOMAIN lastPull' |-> lastPull'[h].in]

\* the event the step received from the upstream, if it received one: it is
\* in the buffer now, or it was handled last
ReceivedNow ==
  IF received' = received THEN <<>>
  ELSE IF buffer' # <<>> THEN buffer'
  ELSE <<HandledNow[Len(HandledNow)]>>

HasFinishReason(event) ==
  event.kind = "chunk" /\
  \E i \in 1..Len(event.choices) : event.choices[i].finish_reason # NoFinish

\* C39: with the empty-chunk filter enabled, an event in which some choice
\* carries a finish_reason is never dropped.
C39_FinishReasonForwarded ==
  (Piped /\ FilteringEnabled) =>
    \A h \in Pulled :
      HasFinishReason(lastPull[h].in) => lastPull[h].out # Dropped

(***************************************************************************)
(* Names of parameters under the schema transform (SpecParameters).        *)
(***************************************************************************)
\* every name that is a key of `properties` in the schema from is a key of
\* `properties` in to, and so on in the schemas of the parameters
RECURSIVE NamesKept(_, _)
NamesKept(from, to) ==
  (from.t = "object" /\ Has(from, "properties")
     /\ ValueAt(from, "properties").t = "object") =>
    /\ to.t = "object" /\ Has(to, "properties")
    /\ ValueAt(to, "properties").t = "object"
    /\ \A i \in 1..Len(ValueAt(from, "properties").items) :
         LET name == ValueAt(from, "properties").items[i].v
         IN /\ Has(ValueAt(to, "properties"), name)
            /\ NamesKept(ValueAt(from, "properties").items[i].items[1],
                         ValueAt(ValueAt(to, "properties"), name))

\* C40: each parameter name that is a key of `properties` in the schema given
\* is a key of `properties` in the transformed schema, also when the parameter
\* is named like a removed or transformed keyword.
C40_ParameterNamesKept ==
  (Len(schemaRun) >= 2 /\ options = DefaultOptions) =>
    NamesKept(GivenSchema, TransformedSchema)

\* the same for the names that are no keyword of the configuration
OtherNamesKept ==
  (Len(schemaRun) >= 2 /\ options = DefaultOptions
     /\ ~ContainsKey(GivenSchema, {"not", "const"})) =>
    NamesKept(GivenSchema, TransformedSchema)

(***************************************************************************)
(* Properties of the text made of the bytes (SpecWire, SpecWires).         *)
(***************************************************************************)
RECURSIVE Concat(_)
Concat(chunks) == IF chunks = <<>> THEN <<>> ELSE chunks[1] \o Concat(Tail(chunks))

\* what a stream on a TextDecoder of its own enqueues for the chunks, by the
\* time it has read them all
RECURSIVE AloneFrom(_, _, _, _)
AloneFrom(pending, chunks, buf, out) ==
  IF chunks = <<>> THEN [buffer |-> buf, out |-> out]
  ELSE AloneFrom(decode(pending, chunks[1]).pending, Tail(chunks),
                 drain(buf \o replaceCRLF(decode(pending, chunks[1]).text), out).buffer,
                 drain(buf \o replaceCRLF(decode(pending, chunks[1]).text), out).out)

Alone(chunks) == AloneFrom(NewDecoder, chunks, <<>>, <<>>)

\* the same with the flush at the end of the stream
AloneOutput(chunks) == flushed(Alone(chunks).buffer, Alone(chunks).out)

\* C35: whatever the cut of the bytes into chunks, a stream that has ended has
\* enqueued what it enqueues when the bytes come as one chunk.
C35_ChunkingInvariant ==
  wire # <<>> =>
    \A s \in WireStreams :
      wire.streams[s].ended =>
        wire.streams[s].out = AloneOutput(<<Concat(wire.streams[s].chunks)>>)

\* C36: what a stream has enqueued is what it enqueues for its chunks on a
\* TextDecoder of its own, whatever the other stream has read or left behind.
C36_StreamsApart ==
  wire # <<>> =>
    \A s \in WireStreams :
      wire.streams[s].out =
        IF wire.streams[s].ended THEN AloneOutput(wire.streams[s].chunks)
        ELSE Alone(wire.streams[s].chunks).out

\* the bytes of no stream have b
NoByte(b) ==
  \A s \in WireStreams :
    \A i \in 1..Len(Concat(wire.streams[s].chunks)) :
      Concat(wire.streams[s].chunks)[i] # b

\* C35 for the bodies without carriage return, C36 for the bodies without
\* lead byte
ChunkingInvariantWithoutCR == (wire # <<>> /\ NoByte("CR")) => C35_ChunkingInvariant
StreamsApartWithoutLead == (wire # <<>> /\ NoByte("lead")) => C36_StreamsApart

====
